---- MODULE Spec2Model ----
(***************************************************************************)
(* Model of ipa-extractor.py: the IPAExtractorApp coordinator (session     *)
(* state, buttons, input fields, worker threads and the queued signals     *)
(* they post to the GUI thread) and WorkerThread.run (the process runner). *)
(*                                                                         *)
(* Text is modelled as a sequence of one-character strings so that the     *)
(* string operations of the source (strip, substring test, dirname,        *)
(* regular-expression search) are computed rather than assumed.            *)
(***************************************************************************)
EXTENDS Integers, Sequences, FiniteSets, Bags, TLC

\* ------------------------------------------------------------------------
\* Bounds of the model
\* ------------------------------------------------------------------------
\* Worker threads that may be outstanding (running, or finished with their
\* terminal signal still queued or being handled) at the same time.
MaxWorkers == 2
\* Lines a pipe holds before a write to it blocks (the operating system's
\* pipe buffer, scaled down).
PipeCapacity == 2
\* Lines the child process writes, to both streams together.
MaxWrites == 3

\* ------------------------------------------------------------------------
\* Text helpers
\* ------------------------------------------------------------------------
SetMin(S) == CHOOSE x \in S : \A y \in S : x <= y
SetMax(S) == CHOOSE x \in S : \A y \in S : x >= y

Whitespace == {" ", "\t", "\n", "\r"}

\* str.strip()
Strip(s) ==
    LET keep == {i \in 1..Len(s) : s[i] \notin Whitespace}
    IN  IF keep = {} THEN <<>> ELSE SubSeq(s, SetMin(keep), SetMax(keep))

\* s[i:].startswith(p), 1-based
MatchesAt(p, s, i) ==
    /\ i >= 1
    /\ i + Len(p) - 1 <= Len(s)
    /\ \A k \in 1..Len(p) : s[i + k - 1] = p[k]

\* p in s
Contains(p, s) == \E i \in 1..(Len(s) - Len(p) + 1) : MatchesAt(p, s, i)

\* s.rfind("/") + 1 with 0-based Python indices: the number of characters up
\* to and including the last slash
LastSlash(s) ==
    LET at == {i \in 1..Len(s) : s[i] = "/"}
    IN  IF at = {} THEN 0 ELSE SetMax(at)

\* str.rstrip("/")
RStripSlash(s) ==
    LET keep == {i \in 1..Len(s) : s[i] # "/"}
    IN  IF keep = {} THEN <<>> ELSE SubSeq(s, 1, SetMax(keep))

\* os.path.dirname (posixpath)
dirname(p) ==
    LET head == SubSeq(p, 1, LastSlash(p))
    IN  IF head # <<>> /\ (\E i \in 1..Len(head) : head[i] # "/")
        THEN RStripSlash(head)
        ELSE head

\* os.path.basename (posixpath)
basename(p) == SubSeq(p, LastSlash(p) + 1, Len(p))

\* A variant that always puts a "/" between the two.
join_with_slash(a, b) ==
    a \o <<"/">> \o b

\* os.path.join(a, b) (posixpath, two arguments)
join(a, b) ==
    IF b # <<>> /\ b[1] = "/" THEN b
    ELSE IF a = <<>> \/ a[Len(a)] = "/" THEN a \o b
    ELSE a \o <<"/">> \o b

\* Optional values: None is the empty tuple, a present value v is <<v>>.
None == <<>>
Some(v) == <<v>>

\* ------------------------------------------------------------------------
\* Literals of the source
\* ------------------------------------------------------------------------
DefaultRemoteScript ==
    <<"/", "v", "a", "r", "/", "m", "o", "b", "i", "l", "e", "/", "D", "o", "c", "u", "m", "e", "n", "t", "s", "/", "e", "x", "t", "r", "a", "c", "t", "-", "i", "p", "a", ".", "s", "h">>
UsrLocalRemoteScript ==
    <<"/", "u", "s", "r", "/", "l", "o", "c", "a", "l", "/", "b", "i", "n", "/", "e", "x", "t", "r", "a", "c", "t", "-", "i", "p", "a", ".", "s", "h">>
DocumentsDir ==
    <<"/", "v", "a", "r", "/", "m", "o", "b", "i", "l", "e", "/", "D", "o", "c", "u", "m", "e", "n", "t", "s", "/">>
ls_path ==
    <<"/", "v", "a", "r", "/", "c", "o", "n", "t", "a", "i", "n", "e", "r", "s", "/", "B", "u", "n", "d", "l", "e", "/", "A", "p", "p", "l", "i", "c", "a", "t", "i", "o", "n", "/">>
ConnectedToken ==
    <<"C", "o", "n", "n", "e", "c", "t", "e", "d">>
IpaMarker ==
    <<"I", "P", "A", ":", " ">>
IpaSuffix ==
    <<".", "i", "p", "a">>
InitialIp ==
    <<"1", "9", "2", ".", "1", "6", "8", ".", "1", ".", "X", "X">>
RootUser ==
    <<"r", "o", "o", "t">>
SshP22 ==
    <<"s", "s", "h", " ", "-", "P", " ", "2", "2", " ">>
ScpP22 ==
    <<"s", "c", "p", " ", "-", "P", " ", "2", "2", " ">>
EchoConnected ==
    <<" ", "'", "e", "c", "h", "o", " ", "C", "o", "n", "n", "e", "c", "t", "e", "d", "'">>
CdOpen ==
    <<" ", "'", "c", "d", " ", "\"">>
ChmodOpen ==
    <<"\"", " ", "&", "&", " ", "c", "h", "m", "o", "d", " ", "+", "x", " ", "\"", ".", "/">>
RunOpen ==
    <<"\"", " ", "&", "&", " ", "\"", ".", "/">>
QSpaceQ ==
    <<"\"", " ", "\"">>
QuoteEnd ==
    <<"\"", "'">>
LsOpen ==
    <<" ", "'", "l", "s", " ">>
Apos ==
    <<"'">>
RsyncOpen ==
    <<"r", "s", "y", "n", "c", " ", "-", "a", "v", "z", " ", "-", "-", "i", "n", "f", "o", "=", "p", "r", "o", "g", "r", "e", "s", "s", "2", " ", "-", "e", " ", "'", "s", "s", "h", " ", "-", "p", " ", "2", "2", "'", " ">>
ColonQuote ==
    <<":", "\"">>
DQuote ==
    <<"\"">>
SshpassOpen ==
    <<"s", "s", "h", "p", "a", "s", "s", " ", "-", "p", " ", "'">>
AposSpace ==
    <<"'", " ">>

\* ------------------------------------------------------------------------
\* Pure functions of the coordinator
\* ------------------------------------------------------------------------

\* re.search(r"IPA: (.+\.ipa)", stdout) followed by match.group(1).strip():
\* the leftmost position where the marker starts a match; "." does not match
\* a newline and ".+" is greedy, so the group runs to the last ".ipa" that
\* is reachable without crossing a newline.  None when there is no match.
IpaGroupEnds(s, i) ==
    {e \in (i + 9)..Len(s) :
        /\ MatchesAt(IpaSuffix, s, e - 3)
        /\ \A k \in (i + 5)..(e - 4) : s[k] # "\n"}

\* A variant that takes the last marker of the output.
SearchIpaFilename_last(s) ==
    LET starts == {i \in 1..Len(s) :
                      MatchesAt(IpaMarker, s, i) /\ IpaGroupEnds(s, i) # {}}
    IN  IF starts = {} THEN None
        ELSE LET i == SetMax(starts)
             IN  Some(Strip(SubSeq(s, i + 5, SetMax(IpaGroupEnds(s, i)))))

SearchIpaFilename(s) ==
    LET starts == {i \in 1..Len(s) :
                      MatchesAt(IpaMarker, s, i) /\ IpaGroupEnds(s, i) # {}}
    IN  IF starts = {} THEN None
        ELSE LET i == SetMin(starts)
             IN  Some(Strip(SubSeq(s, i + 5, SetMax(IpaGroupEnds(s, i)))))

\* _build_ssh_command: the base command of the action, wrapped with sshpass
\* when sshpass is available and the password is not empty.
BaseCommand(action, ip, username, remote_path, local_path, bundle_path, remote_ls_path, remote_ipa_full_path, local_save_path, rsync) ==
    CASE action = "test_connection" ->
            SshP22 \o username \o <<"@">> \o ip \o EchoConnected
      [] action = "transfer" ->
            ScpP22 \o local_path \o <<" ">> \o username \o <<"@">> \o ip
                \o <<":">> \o dirname(remote_path)
      [] action = "execute" ->
            SshP22 \o username \o <<"@">> \o ip
                \o CdOpen \o dirname(remote_path)
                \o ChmodOpen \o basename(remote_path)
                \o RunOpen \o basename(remote_path)
                \o QSpaceQ \o bundle_path \o QuoteEnd
      [] action = "list_bundles" ->
            SshP22 \o username \o <<"@">> \o ip \o LsOpen \o remote_ls_path \o Apos
      [] action = "download_ipa" ->
            IF rsync
            THEN RsyncOpen \o username \o <<"@">> \o ip \o ColonQuote
                    \o remote_ipa_full_path \o QSpaceQ \o local_save_path \o DQuote
            ELSE ScpP22 \o username \o <<"@">> \o ip \o ColonQuote
                    \o remote_ipa_full_path \o QSpaceQ \o local_save_path \o DQuote
      [] OTHER -> <<>>

\* A variant that wraps whenever a password is given.
build_ssh_command_wraps_unasked(action, password, ip, username, remote_path, local_path, bundle_path, remote_ls_path, remote_ipa_full_path, local_save_path, rsync, sshpass) ==
    LET base_command ==
            BaseCommand(action, ip, username, remote_path, local_path,
                        bundle_path, remote_ls_path, remote_ipa_full_path,
                        local_save_path, rsync)
    IN  IF password # <<>>
        THEN SshpassOpen \o password \o AposSpace \o base_command
        ELSE base_command


build_ssh_command(action, password, ip, username, remote_path, local_path, bundle_path, remote_ls_path, remote_ipa_full_path, local_save_path, rsync, sshpass) ==
    LET base_command ==
            BaseCommand(action, ip, username, remote_path, local_path,
                        bundle_path, remote_ls_path, remote_ipa_full_path,
                        local_save_path, rsync)
    IN  IF sshpass /\ password # <<>>
        THEN SshpassOpen \o password \o AposSpace \o base_command
        ELSE base_command

\* A variant that offers the download in every connected session.
update_button_states_offers_download(connected, available, filename, mechanism, rsync) ==
    [connect_btn         |-> ~connected,
     disconnect_btn      |-> connected,
     transfer_script_btn |-> (mechanism = 0 /\ connected),
     run_script_btn      |-> (mechanism = 1 /\ connected),
     download_ipa_btn    |-> (connected /\ rsync),
     refresh_bundle_btn  |-> connected]

\* _update_button_states: the enabled flag of each button as a function of
\* the session state and of the selected script mechanism.
update_button_states(connected, available, filename, mechanism, rsync) ==
    [connect_btn         |-> ~connected,
     disconnect_btn      |-> connected,
     transfer_script_btn |-> (mechanism = 0 /\ connected),
     run_script_btn      |-> (mechanism = 1 /\ connected),
     download_ipa_btn    |-> (connected /\ available /\ filename # None /\ rsync),
     refresh_bundle_btn  |-> connected]

\* on_bundle_paths_fetched, the loop over stdout.splitlines(): one entry per
\* line that is not blank, base path + stripped line + "/".
RECURSIVE SplitLines(_)
SplitLines(s) ==
    IF s = <<>> THEN <<>>
    ELSE LET nl == {i \in 1..Len(s) : s[i] = "\n"}
         IN  IF nl = {} THEN <<s>>
             ELSE <<SubSeq(s, 1, SetMin(nl) - 1)>>
                    \o SplitLines(SubSeq(s, SetMin(nl) + 1, Len(s)))

\* A variant that makes an entry of a blank line too.
RECURSIVE BundleEntries_of_every_line(_)
BundleEntries_of_every_line(lines) ==
    IF lines = <<>> THEN <<>>
    ELSE <<ls_path \o Strip(Head(lines)) \o <<"/">>>>
            \o BundleEntries_of_every_line(Tail(lines))

RECURSIVE BundleEntries(_)
BundleEntries(lines) ==
    IF lines = <<>> THEN <<>>
    ELSE (IF Strip(Head(lines)) # <<>>
          THEN <<ls_path \o Strip(Head(lines)) \o <<"/">>>>
          ELSE <<>>) \o BundleEntries(Tail(lines))

ParseBundlePaths(stdout) == BundleEntries(SplitLines(stdout))

\* A variant that leaves the case as it is.
Lower_as_is(s) ==
    s

\* str.lower() (ASCII letters)
Lower(s) ==
    [i \in 1..Len(s) |->
        CASE s[i] = "A" -> "a"
          [] s[i] = "B" -> "b"
          [] s[i] = "C" -> "c"
          [] s[i] = "D" -> "d"
          [] s[i] = "E" -> "e"
          [] s[i] = "F" -> "f"
          [] s[i] = "G" -> "g"
          [] s[i] = "H" -> "h"
          [] s[i] = "I" -> "i"
          [] s[i] = "J" -> "j"
          [] s[i] = "K" -> "k"
          [] s[i] = "L" -> "l"
          [] s[i] = "M" -> "m"
          [] s[i] = "N" -> "n"
          [] s[i] = "O" -> "o"
          [] s[i] = "P" -> "p"
          [] s[i] = "Q" -> "q"
          [] s[i] = "R" -> "r"
          [] s[i] = "S" -> "s"
          [] s[i] = "T" -> "t"
          [] s[i] = "U" -> "u"
          [] s[i] = "V" -> "v"
          [] s[i] = "W" -> "w"
          [] s[i] = "X" -> "x"
          [] s[i] = "Y" -> "y"
          [] s[i] = "Z" -> "z"
          [] OTHER -> s[i]]

\* _filter_bundle_paths: the items the combo box holds for a filter text
RECURSIVE FilterPaths(_, _)
FilterPaths(paths, text) ==
    IF paths = <<>> THEN <<>>
    ELSE (IF Contains(Lower(text), Lower(Head(paths)))
          THEN <<Head(paths)>> ELSE <<>>) \o FilterPaths(Tail(paths), text)

filter_bundle_paths(paths, text) ==
    IF text # <<>> THEN FilterPaths(paths, text) ELSE paths


\* ------------------------------------------------------------------------
\* Inputs the user and the remote side can supply
\* ------------------------------------------------------------------------
OtherIp == <<"1", "0", ".", "0", ".", "0", ".", "2">>
SomePassword == <<"p", "w">>
LocalScriptFile == <<"/", "t", "m", "p", "/", "x", ".", "s", "h">>
SavePath == <<"/", "h", "o", "m", "e", "/", "u", "/", "o", "u", "t", ".", "i", "p", "a">>
FilterBa == <<"b", "a">>
OutConnected == <<"C", "o", "n", "n", "e", "c", "t", "e", "d", "\n">>
OutIpaMyApp == <<"I", "P", "A", ":", " ", "M", "y", "A", "p", "p", ".", "i", "p", "a", "\n">>
OutDone == <<"d", "o", "n", "e", "\n">>
OutBundles ==
    <<"c", "o", "m", ".", "f", "o", "o", ".", "A", "p", "p", "\n", "c", "o", "m", ".", "b", "a", "r", ".", "A", "p", "p", "2", "\n">>
OutBlankBundles == <<"\n", " ", "B", "a", "z", " ", "\n">>

IpValues == {<<>>, InitialIp, OtherIp}
UsernameValues == {<<>>, RootUser}
PasswordValues == {<<>>, SomePassword}
RemoteScriptValues == {<<>>, DefaultRemoteScript, UsrLocalRemoteScript}
LocalScriptValues == {<<>>, LocalScriptFile}
FilterBaUpper == <<"B", "A">>
FilterFoo == <<"f", "o", "o">>
FilterZ == <<"z">>
FilterQ == <<"q">>
FilterValues == {<<>>, FilterBa, FilterBaUpper, FilterFoo, FilterZ, FilterQ}
\* files that exist on the local machine (os.path.exists)
ExistingFiles == {LocalScriptFile}
\* what the save-file dialog returns: a path, or the empty string on cancel
SavePathValues == {<<>>, SavePath}

ReturnCodes == {0, 1}
\* standard output a remote command may produce, by the handler that reads it
StdoutOf(handler) ==
    CASE handler = "on_test_connection_finished" -> {<<>>, OutConnected}
      [] handler = "on_execute_finished" -> {OutDone, OutIpaMyApp}
      [] handler = "on_bundle_paths_fetched" -> {<<>>, OutBundles}
      [] OTHER -> {<<>>}

\* ------------------------------------------------------------------------
\* State
\* ------------------------------------------------------------------------
VARIABLES
    alive,                        \* the application process has not aborted
    ssh_connected,                \* IPAExtractorApp.ssh_connected
    ipa_available,                \* IPAExtractorApp.ipa_available
    last_generated_ipa_filename,  \* None or Some(name)
    ipa_script_path,              \* history: the remote script path of the execution
                                  \* that set last_generated_ipa_filename, or None
    all_bundle_paths,             \* master list of bundle paths
    bundle_path_combo,            \* [items, index]: the combo box; index 0 = no current item
    rsync_available,              \* capability probes, set at start-up
    sshpass_available,
    enabled,                      \* enabled flag of the six buttons
    read_only,                    \* readOnly flag of the ip/username/password/remote path inputs
    script_mechanism,             \* script_mechanism_combo.currentIndex()
    ip_input,
    username_input,
    password_input,
    remote_script_path_input,
    local_script_path_input,
    bundle_filter_input,
    workers,                      \* bag of the running WorkerThreads
    events,                       \* terminal signals queued to the GUI thread
    modal,                        \* stack of open modal dialogs (innermost last)
    \* one execution of WorkerThread.run
    pc,                           \* where run() stands
    is_download,                  \* WorkerThread.is_download
    process,                      \* the child: [state, todo, returncode]
    stdout_pipe,                  \* lines written and not yet read
    stderr_pipe,
    stdout_line,                  \* what the last readline() returned
    stderr_line,
    stdout_lines,
    stderr_lines,
    signals                       \* signals run() has emitted, in order

session == <<ssh_connected, ipa_available, last_generated_ipa_filename, ipa_script_path>>
catalog == <<all_bundle_paths, bundle_path_combo>>
caps    == <<rsync_available, sshpass_available>>
buttons == <<enabled, read_only>>
inputs  == <<script_mechanism, ip_input, username_input, password_input,
             remote_script_path_input, local_script_path_input,
             bundle_filter_input>>
threads == <<workers, events>>

app == <<alive, session, catalog, caps, buttons, inputs, threads, modal>>
runner == <<pc, is_download, process, stdout_pipe, stderr_pipe, stdout_line,
            stderr_line, stdout_lines, stderr_lines, signals>>

vars == <<app, runner>>

AllDisabled ==
    [connect_btn |-> FALSE, disconnect_btn |-> FALSE,
     transfer_script_btn |-> FALSE, run_script_btn |-> FALSE,
     download_ipa_btn |-> FALSE, refresh_bundle_btn |-> FALSE]

\* No WorkerThread.run is followed step by step.
RunnerParked ==
    /\ pc = "parked"
    /\ is_download = FALSE
    /\ process = [state |-> "unstarted", found |-> TRUE, program |-> <<>>,
                  todo |-> <<>>, returncode |-> 0]
    /\ stdout_pipe = <<>>
    /\ stderr_pipe = <<>>
    /\ stdout_line = <<>>
    /\ stderr_line = <<>>
    /\ stdout_lines = <<>>
    /\ stderr_lines = <<>>
    /\ signals = <<>>

\* IPAExtractorApp.__init__ and init_ui
Init ==
    /\ RunnerParked
    /\ alive = TRUE
    /\ ssh_connected = FALSE
    /\ ipa_available = FALSE
    /\ last_generated_ipa_filename = None
    /\ ipa_script_path = None
    /\ all_bundle_paths = <<>>
    /\ bundle_path_combo = [items |-> <<>>, index |-> 0]
    /\ rsync_available \in BOOLEAN
    /\ sshpass_available \in BOOLEAN
    /\ enabled = update_button_states(FALSE, FALSE, None, 0, FALSE)
    /\ read_only = FALSE
    /\ script_mechanism = 0
    /\ ip_input = InitialIp
    /\ username_input = RootUser
    /\ password_input = <<>>
    /\ remote_script_path_input = DefaultRemoteScript
    /\ local_script_path_input = <<>>
    /\ bundle_filter_input = <<>>
    /\ workers = EmptyBag
    /\ events = <<>>
    /\ modal = <<>>

\* ------------------------------------------------------------------------
\* Worker threads as the coordinator sees them
\* ------------------------------------------------------------------------
\* A call of _build_ssh_command, by its arguments.
Request(action, password, ip, username, remote_path, local_path, bundle_path, remote_ls_path, remote_ipa_full_path, local_save_path) ==
    [action |-> action, password |-> password, ip |-> ip, username |-> username,
     remote_path |-> remote_path, local_path |-> local_path,
     bundle_path |-> bundle_path, remote_ls_path |-> remote_ls_path,
     remote_ipa_full_path |-> remote_ipa_full_path,
     local_save_path |-> local_save_path]

\* WorkerThread.command: what _build_ssh_command returned for the request
\* (the capability flags do not change after start-up).
CommandOf(r) ==
    build_ssh_command(r.action, r.password, r.ip, r.username, r.remote_path,
                      r.local_path, r.bundle_path, r.remote_ls_path,
                      r.remote_ipa_full_path, r.local_save_path,
                      rsync_available, sshpass_available)

\* The GUI thread dispatches a user event: the application runs and no modal
\* dialog blocks input to the main window.
UserCanAct == alive /\ modal = <<>>

\* Room for one more outstanding worker (model bound).
CanStart == BagCardinality(workers) + Len(events) < MaxWorkers

\* WorkerThread(command, is_download) bound to attribute attr, with its
\* finished signal connected to handler (args: what the connected lambda
\* captured).
\* request: the arguments _build_ssh_command was called with; the command
\* line the thread runs is CommandOf(request).
\* built_available: the value ipa_available had when the command line was
\* built (the handlers differ in whether they build before or after the reset).
NewWorker(attr, handler, request, download, args, built_available) ==
    [attr |-> attr, handler |-> handler, request |-> request,
     is_download |-> download, args |-> args, held |-> TRUE,
     built_available |-> built_available]

\* The attribute attr is rebound: a still running thread it referred to
\* loses its only reference.
Rebinds(attr) == \E w \in BagToSet(workers) : w.attr = attr /\ w.held

Release(w, attr) == IF w.attr = attr THEN [w EXCEPT !.held = FALSE] ELSE w

Released(attr) ==
    LET old == BagToSet(workers)
        new == {Release(w, attr) : w \in old}
    IN  [n \in new |->
            (IF n \in old THEN workers[n] ELSE 0)
            + (IF n.attr = attr /\ [n EXCEPT !.held = TRUE] \in old
               THEN workers[[n EXCEPT !.held = TRUE]] ELSE 0)]

\* self.<attr> = WorkerThread(...); ...; self.<attr>.start()
\* Dropping the last reference to a running QThread is undefined: the
\* thread may run on to its terminal signal, or the process aborts.
StartWorker(w) ==
    /\ workers' = Released(w.attr) (+) SetToBag({w})
    /\ alive' \in (IF Rebinds(w.attr) THEN {TRUE, FALSE} ELSE {TRUE})

\* A variant in which the thread itself records a failed command in the
\* session.
WorkerFinished_writes_session(w) ==
    /\ alive
    /\ BagIn(w, workers)
    /\ \E stdout \in StdoutOf(w.handler), returncode \in ReturnCodes :
          /\ events' = Append(events,
                           [signal |-> "finished", handler |-> w.handler,
                            attr |-> w.attr, args |-> w.args,
                            remote_path |-> w.request.remote_path,
                            stdout |-> stdout, returncode |-> returncode])
          /\ ssh_connected' = (ssh_connected /\ returncode = 0)
    /\ workers' = workers (-) SetToBag({w})
    /\ UNCHANGED <<alive, ipa_available, last_generated_ipa_filename,
                   ipa_script_path, catalog, caps, buttons, inputs, modal, runner>>

\* WorkerThread.run reaches self.finished.emit(stdout, stderr, returncode,
\* time_taken): the signal is queued with what the process produced.
WorkerFinished(w) ==
    /\ alive
    /\ BagIn(w, workers)
    /\ \E stdout \in StdoutOf(w.handler), returncode \in ReturnCodes :
          events' = Append(events,
                           [signal |-> "finished", handler |-> w.handler,
                            attr |-> w.attr, args |-> w.args,
                            remote_path |-> w.request.remote_path,
                            stdout |-> stdout, returncode |-> returncode])
    /\ workers' = workers (-) SetToBag({w})
    /\ UNCHANGED <<alive, session, catalog, caps, buttons, inputs, modal, runner>>

\* WorkerThread.run reaches self.error.emit(message)
WorkerError(w) ==
    /\ alive
    /\ BagIn(w, workers)
    /\ events' = Append(events,
                        [signal |-> "error", handler |-> "on_worker_error",
                         attr |-> w.attr, args |-> <<>>,
                         remote_path |-> w.request.remote_path,
                         stdout |-> <<>>, returncode |-> 0])
    /\ workers' = workers (-) SetToBag({w})
    /\ UNCHANGED <<alive, session, catalog, caps, buttons, inputs, modal, runner>>

\* The GUI thread takes the next queued signal for the given slot.
Delivered(signal, handler) ==
    /\ alive
    /\ events # <<>>
    /\ Head(events).signal = signal
    /\ Head(events).handler = handler
    /\ events' = Tail(events)


\* ------------------------------------------------------------------------
\* Connection
\* ------------------------------------------------------------------------
\* Click on connect_btn.
test_ssh_connection ==
    /\ UserCanAct
    /\ enabled.connect_btn
    /\ LET ip == Strip(ip_input)
           username == Strip(username_input)
           password == password_input
       IN  IF ip = <<>> \/ username = <<>>
           THEN UNCHANGED vars
           ELSE /\ CanStart
                /\ enabled' = AllDisabled
                /\ ipa_available' = FALSE
                /\ last_generated_ipa_filename' = None
                /\ ipa_script_path' = None
                /\ read_only' = ssh_connected
                /\ StartWorker(NewWorker("test_worker", "on_test_connection_finished",
                        Request("test_connection", password, ip, username,
                                          <<>>, <<>>, <<>>, <<>>, <<>>, <<>>),
                        FALSE, <<>>, ipa_available))
                /\ UNCHANGED <<ssh_connected, catalog, caps, inputs, events, modal, runner>>

\* A variant that trusts the exit status alone.
connection_succeeded_by_status(returncode, stdout) ==
    returncode = 0

\* The test of on_test_connection_finished:
\*     returncode == 0 and "Connected" in stdout
connection_succeeded(returncode, stdout) ==
    returncode = 0 /\ Contains(ConnectedToken, stdout)

\* Slot of test_worker.finished.
on_test_connection_finished ==
    /\ Delivered("finished", "on_test_connection_finished")
    /\ LET stdout == Head(events).stdout
           returncode == Head(events).returncode
           ok == connection_succeeded(returncode, stdout)
       IN  /\ ssh_connected' = ok
           /\ ipa_available' = FALSE
           /\ last_generated_ipa_filename' = None
           /\ ipa_script_path' = None
           /\ enabled' = update_button_states(ok, FALSE, None, script_mechanism,
                                              rsync_available)
           /\ read_only' = ok
    /\ UNCHANGED <<alive, catalog, caps, inputs, workers, modal, runner>>

\* A variant that ends the session and keeps the archive state.
disconnect_ssh_keeps_archive ==
    /\ UserCanAct
    /\ enabled.disconnect_btn
    /\ ssh_connected' = FALSE
    /\ enabled' = update_button_states(FALSE, ipa_available,
                        last_generated_ipa_filename, script_mechanism,
                        rsync_available)
    /\ read_only' = FALSE
    /\ UNCHANGED <<alive, ipa_available, last_generated_ipa_filename,
                   ipa_script_path, catalog, caps, inputs, threads, modal, runner>>

\* Click on disconnect_btn.
disconnect_ssh ==
    /\ UserCanAct
    /\ enabled.disconnect_btn
    /\ ssh_connected' = FALSE
    /\ ipa_available' = FALSE
    /\ last_generated_ipa_filename' = None
    /\ ipa_script_path' = None
    /\ enabled' = update_button_states(FALSE, FALSE, None, script_mechanism,
                                       rsync_available)
    /\ read_only' = FALSE
    /\ UNCHANGED <<alive, catalog, caps, inputs, threads, modal, runner>>

\* ------------------------------------------------------------------------
\* Transfer and execute
\* ------------------------------------------------------------------------
\* Click on transfer_script_btn (shown for mechanism 0).
transfer_and_run_script ==
    /\ UserCanAct
    /\ enabled.transfer_script_btn
    /\ script_mechanism = 0
    /\ LET local_script == local_script_path_input
           ip == Strip(ip_input)
           username == Strip(username_input)
           password == password_input
           remote_script == Strip(remote_script_path_input)
           bundle_path ==
               IF bundle_path_combo.index = 0 THEN <<>>
               ELSE Strip(bundle_path_combo.items[bundle_path_combo.index])
       IN  IF \/ ~ssh_connected
              \/ script_mechanism # 0
              \/ local_script = <<>> \/ local_script \notin ExistingFiles
              \/ ip = <<>> \/ username = <<>> \/ remote_script = <<>>
              \/ bundle_path = <<>>
           THEN UNCHANGED vars
           ELSE /\ CanStart
                /\ enabled' = AllDisabled
                /\ ipa_available' = FALSE
                /\ last_generated_ipa_filename' = None
                /\ ipa_script_path' = None
                /\ StartWorker(NewWorker("transfer_worker",
                        "on_transfer_finished_and_then_run",
                        Request("transfer", password, ip, username,
                                          remote_script, local_script, <<>>, <<>>,
                                          <<>>, <<>>),
                        FALSE,
                        [ip |-> ip, username |-> username, password |-> password,
                         remote_script |-> remote_script,
                         bundle_path |-> bundle_path],
                        ipa_available'))
                /\ UNCHANGED <<ssh_connected, catalog, caps, read_only, inputs,
                               events, modal, runner>>

\* A variant that goes on to the execution whatever the transfer returned.
transfer_succeeded_always(returncode) ==
    TRUE

\* The test of on_transfer_finished_and_then_run: returncode == 0
transfer_succeeded(returncode) ==
    returncode = 0

\* Slot of transfer_worker.finished (the lambda with the captured arguments).
on_transfer_finished_and_then_run ==
    /\ Delivered("finished", "on_transfer_finished_and_then_run")
    /\ LET returncode == Head(events).returncode
           a == Head(events).args
       IN  IF transfer_succeeded(returncode)
           THEN /\ StartWorker(NewWorker("execute_worker", "on_execute_finished",
                        Request("execute", a.password, a.ip, a.username,
                                          a.remote_script, <<>>, a.bundle_path,
                                          <<>>, <<>>, <<>>),
                        FALSE, <<>>, ipa_available))
                /\ UNCHANGED buttons
           ELSE /\ enabled' = update_button_states(ssh_connected, ipa_available,
                                   last_generated_ipa_filename, script_mechanism,
                                   rsync_available)
                /\ read_only' = ssh_connected
                /\ UNCHANGED <<alive, workers>>
    /\ UNCHANGED <<session, catalog, caps, inputs, modal, runner>>

\* Click on run_script_btn (shown for mechanism 1).
run_script_on_iphone ==
    /\ UserCanAct
    /\ enabled.run_script_btn
    /\ script_mechanism = 1
    /\ LET ip == Strip(ip_input)
           username == Strip(username_input)
           password == password_input
           remote_script == Strip(remote_script_path_input)
           bundle_path ==
               IF bundle_path_combo.index = 0 THEN <<>>
               ELSE Strip(bundle_path_combo.items[bundle_path_combo.index])
       IN  IF \/ ~ssh_connected
              \/ script_mechanism # 1
              \/ ip = <<>> \/ username = <<>> \/ remote_script = <<>>
              \/ bundle_path = <<>>
           THEN UNCHANGED vars
           ELSE /\ CanStart
                /\ enabled' = AllDisabled
                /\ ipa_available' = FALSE
                /\ last_generated_ipa_filename' = None
                /\ ipa_script_path' = None
                /\ StartWorker(NewWorker("execute_worker", "on_execute_finished",
                        Request("execute", password, ip, username,
                                          remote_script, <<>>, bundle_path, <<>>,
                                          <<>>, <<>>),
                        FALSE, <<>>, ipa_available))
                /\ UNCHANGED <<ssh_connected, catalog, caps, read_only, inputs,
                               events, modal, runner>>

\* A variant that takes a zero exit status for a produced archive.
execute_result_by_status(returncode, stdout) ==
    [available |-> returncode = 0,
     filename  |-> IF returncode = 0 THEN SearchIpaFilename(stdout) ELSE None]

\* What on_execute_finished stores in ipa_available and
\* last_generated_ipa_filename: the archive is available when the script
\* exited with 0 and its output names the archive.
execute_result(returncode, stdout) ==
    LET match == SearchIpaFilename(stdout)
    IN  [available |-> returncode = 0 /\ match # None,
         filename  |-> IF returncode = 0 THEN match ELSE None]

\* A variant that reports a missing archive name as a failed execution.
execute_log_fails_without_name(returncode, stdout) ==
    IF returncode = 0 /\ SearchIpaFilename(stdout) # None
    THEN <<[message |-> "executed", color |-> "#c0ffee"],
           [message |-> "created", color |-> "#c0ffee"],
           [message |-> "detected", color |-> "#c0ffee"]>>
    ELSE <<[message |-> "failed", color |-> "red"],
           [message |-> "check", color |-> "red"]>>

\* The display_log calls of on_execute_finished that depend on the exit
\* status and on the marker: "Script executed successfully on iPhone!",
\* "The .ipa file should have been created ...", "Detected IPA filename",
\* "Warning: Could not automatically detect IPA filename ...", "Script
\* execution failed with code ...", "Please check IP, username, ...".
execute_log(returncode, stdout) ==
    IF returncode = 0
    THEN <<[message |-> "executed", color |-> "#c0ffee"],
           [message |-> "created", color |-> "#c0ffee"]>>
         \o (IF SearchIpaFilename(stdout) # None
             THEN <<[message |-> "detected", color |-> "#c0ffee"]>>
             ELSE <<[message |-> "undetected", color |-> "orange"]>>)
    ELSE <<[message |-> "failed", color |-> "red"],
           [message |-> "check", color |-> "red"]>>

\* Slot of execute_worker.finished.
on_execute_finished ==
    /\ Delivered("finished", "on_execute_finished")
    /\ LET r == execute_result(Head(events).returncode, Head(events).stdout)
       IN  /\ ipa_available' = r.available
           /\ last_generated_ipa_filename' = r.filename
           /\ ipa_script_path' = IF r.filename # None
                                 THEN Some(Head(events).remote_path) ELSE None
           /\ enabled' = update_button_states(ssh_connected, r.available, r.filename,
                                              script_mechanism, rsync_available)
           /\ read_only' = ssh_connected
    /\ UNCHANGED <<alive, ssh_connected, catalog, caps, inputs, workers, modal, runner>>


\* ------------------------------------------------------------------------
\* Bundle catalog
\* ------------------------------------------------------------------------
\* A variant that lists the bundles and keeps the archive state.
fetch_bundle_paths_keeps_archive ==
    /\ UserCanAct
    /\ enabled.refresh_bundle_btn
    /\ LET ip == Strip(ip_input)
           username == Strip(username_input)
           password == password_input
       IN  IF ~ssh_connected \/ ip = <<>> \/ username = <<>>
           THEN UNCHANGED vars
           ELSE /\ CanStart
                /\ enabled' = [enabled EXCEPT !.refresh_bundle_btn = FALSE,
                                              !.transfer_script_btn = FALSE,
                                              !.run_script_btn = FALSE,
                                              !.download_ipa_btn = FALSE]
                /\ StartWorker(NewWorker("bundle_list_worker", "on_bundle_paths_fetched",
                        Request("list_bundles", password, ip, username,
                                          <<>>, <<>>, <<>>, ls_path, <<>>, <<>>),
                        FALSE, <<>>, ipa_available))
                /\ UNCHANGED <<session, catalog, caps, read_only, inputs,
                               events, modal, runner>>

\* Click on refresh_bundle_btn.
fetch_bundle_paths ==
    /\ UserCanAct
    /\ enabled.refresh_bundle_btn
    /\ LET ip == Strip(ip_input)
           username == Strip(username_input)
           password == password_input
       IN  IF ~ssh_connected \/ ip = <<>> \/ username = <<>>
           THEN UNCHANGED vars
           ELSE /\ CanStart
                /\ enabled' = [enabled EXCEPT !.refresh_bundle_btn = FALSE,
                                              !.transfer_script_btn = FALSE,
                                              !.run_script_btn = FALSE,
                                              !.download_ipa_btn = FALSE]
                /\ ipa_available' = FALSE
                /\ last_generated_ipa_filename' = None
                /\ ipa_script_path' = None
                /\ StartWorker(NewWorker("bundle_list_worker", "on_bundle_paths_fetched",
                        Request("list_bundles", password, ip, username,
                                          <<>>, <<>>, <<>>, ls_path, <<>>, <<>>),
                        FALSE, <<>>, ipa_available))
                /\ UNCHANGED <<ssh_connected, catalog, caps, read_only, inputs,
                               events, modal, runner>>

\* A variant that asks for the list again when listing has failed.
on_bundle_paths_fetched_retries ==
    /\ Delivered("finished", "on_bundle_paths_fetched")
    /\ LET stdout == Head(events).stdout
           returncode == Head(events).returncode
       IN  IF returncode = 0
           THEN /\ all_bundle_paths' = ParseBundlePaths(stdout)
                /\ bundle_path_combo' = [items |-> ParseBundlePaths(stdout), index |-> 0]
                /\ UNCHANGED <<alive, workers>>
           ELSE /\ UNCHANGED catalog
                /\ StartWorker(NewWorker("bundle_list_worker", "on_bundle_paths_fetched",
                        Request("list_bundles", password_input, Strip(ip_input),
                                Strip(username_input),
                                <<>>, <<>>, <<>>, ls_path, <<>>, <<>>),
                        FALSE, <<>>, ipa_available))
    /\ enabled' = update_button_states(ssh_connected, ipa_available,
                        last_generated_ipa_filename, script_mechanism,
                        rsync_available)
    /\ read_only' = ssh_connected
    /\ UNCHANGED <<session, caps, inputs, modal, runner>>

\* A variant that adds the entries of a new listing to the ones it has.
on_bundle_paths_fetched_appends ==
    /\ Delivered("finished", "on_bundle_paths_fetched")
    /\ LET stdout == Head(events).stdout
           returncode == Head(events).returncode
       IN  IF returncode = 0
           THEN /\ all_bundle_paths' = all_bundle_paths \o ParseBundlePaths(stdout)
                /\ bundle_path_combo' =
                       [items |-> bundle_path_combo.items \o ParseBundlePaths(stdout),
                        index |-> 0]
           ELSE UNCHANGED catalog
    /\ enabled' = update_button_states(ssh_connected, ipa_available,
                        last_generated_ipa_filename, script_mechanism,
                        rsync_available)
    /\ read_only' = ssh_connected
    /\ UNCHANGED <<alive, session, caps, inputs, workers, modal, runner>>

\* Slot of bundle_list_worker.finished.  A combo box that has a placeholder
\* text keeps "no current item" when items are added to it.
on_bundle_paths_fetched ==
    /\ Delivered("finished", "on_bundle_paths_fetched")
    /\ LET stdout == Head(events).stdout
           returncode == Head(events).returncode
       IN  IF returncode = 0
           THEN /\ all_bundle_paths' = ParseBundlePaths(stdout)
                /\ bundle_path_combo' = [items |-> ParseBundlePaths(stdout), index |-> 0]
           ELSE UNCHANGED catalog
    /\ enabled' = update_button_states(ssh_connected, ipa_available,
                        last_generated_ipa_filename, script_mechanism,
                        rsync_available)
    /\ read_only' = ssh_connected
    /\ UNCHANGED <<alive, session, caps, inputs, workers, modal, runner>>

\* The user edits bundle_filter_input; textChanged calls _filter_bundle_paths.
filter_bundle_paths_changed ==
    /\ UserCanAct
    /\ \E text \in FilterValues :
          /\ text # bundle_filter_input
          /\ bundle_filter_input' = text
          /\ bundle_path_combo' = [items |-> filter_bundle_paths(all_bundle_paths, text),
                                   index |-> 0]
    /\ UNCHANGED <<alive, session, all_bundle_paths, caps, buttons,
                   script_mechanism, ip_input, username_input, password_input,
                   remote_script_path_input, local_script_path_input, threads,
                   modal, runner>>

\* The user picks an item of bundle_path_combo.
select_bundle_path ==
    /\ UserCanAct
    /\ \E i \in 1..Len(bundle_path_combo.items) :
          /\ i # bundle_path_combo.index
          /\ bundle_path_combo' = [bundle_path_combo EXCEPT !.index = i]
    /\ UNCHANGED <<alive, session, all_bundle_paths, caps, buttons, inputs,
                   threads, modal, runner>>

\* ------------------------------------------------------------------------
\* Download
\* ------------------------------------------------------------------------
\* The early returns of download_ipa_from_iphone: not connected, or no
\* archive available, or no archive name.
download_checks_pass(connected, available, filename) ==
    connected /\ available /\ filename # None

\* Click on download_ipa_btn, up to QFileDialog.getSaveFileName: the checks,
\* the inputs read and the remote path resolved before the dialog opens.
\* (download_ipa_btn is enabled only when rsync is available, so the rsync
\* warning box is never shown on this path.)
download_ipa_from_iphone ==
    /\ UserCanAct
    /\ enabled.download_ipa_btn
    /\ IF ~download_checks_pass(ssh_connected, ipa_available,
                                last_generated_ipa_filename)
       THEN UNCHANGED vars
       ELSE /\ modal' = Append(modal,
                       [kind |-> "save_dialog",
                        args |-> [ip |-> Strip(ip_input),
                                  username |-> Strip(username_input),
                                  password |-> password_input,
                                  remote_ipa_full_path |->
                                      join(dirname(Strip(remote_script_path_input)),
                                           last_generated_ipa_filename[1])]])
            /\ UNCHANGED <<alive, session, catalog, caps, buttons, inputs, threads, runner>>

\* The save dialog returns: an empty path cancels, otherwise the download
\* command is built and its worker started.
download_ipa_save_dialog_closed ==
    /\ alive
    /\ modal # <<>>
    /\ modal[Len(modal)].kind = "save_dialog"
    /\ modal' = SubSeq(modal, 1, Len(modal) - 1)
    /\ \E local_save_path \in SavePathValues :
          LET a == modal[Len(modal)].args
          IN  IF local_save_path = <<>>
              THEN UNCHANGED <<alive, session, catalog, caps, buttons, inputs, threads, runner>>
              ELSE /\ CanStart
                   /\ enabled' = AllDisabled
                   /\ StartWorker(NewWorker("download_worker", "on_ipa_download_finished",
                           Request("download_ipa", a.password, a.ip,
                                             a.username, <<>>, <<>>, <<>>, <<>>,
                                             a.remote_ipa_full_path, local_save_path),
                           TRUE, <<>>, ipa_available))
                   /\ UNCHANGED <<session, catalog, caps, read_only, inputs, events, runner>>

\* A variant in which a failed download ends the session.
on_ipa_download_finished_disconnects ==
    /\ Delivered("finished", "on_ipa_download_finished")
    /\ ssh_connected' = (ssh_connected /\ Head(events).returncode = 0)
    /\ enabled' = update_button_states(ssh_connected', ipa_available,
                        last_generated_ipa_filename, script_mechanism,
                        rsync_available)
    /\ read_only' = ssh_connected'
    /\ UNCHANGED <<alive, ipa_available, last_generated_ipa_filename,
                   ipa_script_path, catalog, caps, inputs, workers, modal, runner>>

\* Slot of download_worker.finished.
on_ipa_download_finished ==
    /\ Delivered("finished", "on_ipa_download_finished")
    /\ enabled' = update_button_states(ssh_connected, ipa_available,
                        last_generated_ipa_filename, script_mechanism,
                        rsync_available)
    /\ read_only' = ssh_connected
    /\ UNCHANGED <<alive, session, catalog, caps, inputs, workers, modal, runner>>

\* ------------------------------------------------------------------------
\* Worker errors
\* ------------------------------------------------------------------------
\* Slot of every worker's error signal, up to QMessageBox.critical: the box
\* is modal and runs its own event loop, in which further queued signals
\* are handled before the rest of this handler runs.
on_worker_error ==
    /\ Delivered("error", "on_worker_error")
    /\ modal' = Append(modal, [kind |-> "error_box",
                                args |-> [attr |-> Head(events).attr]])
    /\ UNCHANGED <<alive, session, catalog, caps, buttons, inputs, workers, runner>>

\* The error box is closed: the rest of on_worker_error.
on_worker_error_box_closed ==
    /\ alive
    /\ modal # <<>>
    /\ modal[Len(modal)].kind = "error_box"
    /\ modal' = SubSeq(modal, 1, Len(modal) - 1)
    /\ enabled' = [update_button_states(ssh_connected, ipa_available,
                        last_generated_ipa_filename, script_mechanism,
                        rsync_available) EXCEPT !.connect_btn = TRUE]
    /\ read_only' = ssh_connected
    /\ UNCHANGED <<alive, session, catalog, caps, inputs, threads, runner>>

\* ------------------------------------------------------------------------
\* Input fields
\* ------------------------------------------------------------------------
\* The user selects the other entry of script_mechanism_combo.
update_script_mechanism_ui ==
    /\ UserCanAct
    /\ \E index \in {0, 1} :
          /\ index # script_mechanism
          /\ script_mechanism' = index
          /\ IF index = 0
             THEN /\ remote_script_path_input' =
                        IF remote_script_path_input \in
                               {DefaultRemoteScript, UsrLocalRemoteScript, <<>>}
                        THEN DefaultRemoteScript
                        ELSE remote_script_path_input
                  /\ UNCHANGED local_script_path_input
             ELSE /\ remote_script_path_input' = DefaultRemoteScript
                  /\ local_script_path_input' = <<>>
          /\ enabled' = update_button_states(ssh_connected, ipa_available,
                              last_generated_ipa_filename, index, rsync_available)
          /\ read_only' = ssh_connected
    /\ UNCHANGED <<alive, session, catalog, caps, ip_input, username_input,
                   password_input, bundle_filter_input, threads, modal, runner>>

\* "Choose File...": a file is picked (cancelling changes nothing).
browse_local_script_path ==
    /\ UserCanAct
    /\ script_mechanism = 0
    /\ \E file_name \in ExistingFiles :
          /\ local_script_path_input' = file_name
          /\ remote_script_path_input' = DocumentsDir \o basename(file_name)
    /\ UNCHANGED <<alive, session, catalog, caps, buttons, script_mechanism,
                   ip_input, username_input, password_input,
                   bundle_filter_input, threads, modal, runner>>

\* The user types into one of the inputs that are read-only while connected.
edit_ip_input ==
    /\ UserCanAct
    /\ ~read_only
    /\ \E text \in IpValues : text # ip_input /\ ip_input' = text
    /\ UNCHANGED <<alive, session, catalog, caps, buttons, script_mechanism,
                   username_input, password_input, remote_script_path_input,
                   local_script_path_input, bundle_filter_input, threads, modal,
                   runner>>

edit_username_input ==
    /\ UserCanAct
    /\ ~read_only
    /\ \E text \in UsernameValues : text # username_input /\ username_input' = text
    /\ UNCHANGED <<alive, session, catalog, caps, buttons, script_mechanism,
                   ip_input, password_input, remote_script_path_input,
                   local_script_path_input, bundle_filter_input, threads, modal,
                   runner>>

edit_password_input ==
    /\ UserCanAct
    /\ ~read_only
    /\ \E text \in PasswordValues : text # password_input /\ password_input' = text
    /\ UNCHANGED <<alive, session, catalog, caps, buttons, script_mechanism,
                   ip_input, username_input, remote_script_path_input,
                   local_script_path_input, bundle_filter_input, threads, modal,
                   runner>>

edit_remote_script_path_input ==
    /\ UserCanAct
    /\ ~read_only
    /\ \E text \in RemoteScriptValues :
          text # remote_script_path_input /\ remote_script_path_input' = text
    /\ UNCHANGED <<alive, session, catalog, caps, buttons, script_mechanism,
                   ip_input, username_input, password_input,
                   local_script_path_input, bundle_filter_input, threads, modal,
                   runner>>

\* local_script_path_input is never read-only (it is shown for mechanism 0).
edit_local_script_path_input ==
    /\ UserCanAct
    /\ script_mechanism = 0
    /\ \E text \in LocalScriptValues :
          text # local_script_path_input /\ local_script_path_input' = text
    /\ UNCHANGED <<alive, session, catalog, caps, buttons, script_mechanism,
                   ip_input, username_input, password_input,
                   remote_script_path_input, bundle_filter_input, threads, modal,
                   runner>>

\* ------------------------------------------------------------------------
\* The application
\* ------------------------------------------------------------------------
\* The user works the buttons, the mechanism selector, the file chooser, the
\* bundle selector and the dialogs, while workers run and report.  The text
\* of the credential, path and filter fields stays as it is (the edit_*
\* actions and filter_bundle_paths_changed above are not part of Next): in
\* the handlers a field's text only decides whether the handler returns
\* early, which is a step that changes nothing, and what the command line
\* of the request reads.
Next ==
    \/ test_ssh_connection
    \/ on_test_connection_finished
    \/ disconnect_ssh
    \/ transfer_and_run_script
    \/ on_transfer_finished_and_then_run
    \/ run_script_on_iphone
    \/ on_execute_finished
    \/ fetch_bundle_paths
    \/ on_bundle_paths_fetched
    \/ select_bundle_path
    \/ download_ipa_from_iphone
    \/ download_ipa_save_dialog_closed
    \/ on_ipa_download_finished
    \/ on_worker_error
    \/ on_worker_error_box_closed
    \/ update_script_mechanism_ui
    \/ browse_local_script_path
    \/ \E w \in BagToSet(workers) : WorkerFinished(w)
    \/ \E w \in BagToSet(workers) : WorkerError(w)

Spec == Init /\ [][Next]_vars


\* ------------------------------------------------------------------------
\* WorkerThread.run: the process runner, step by step
\* ------------------------------------------------------------------------
\* Lines a child may write.  BadBytes stands for bytes that are not valid
\* UTF-8: reading them raises UnicodeDecodeError.
LineText == <<"o", "k", "\n">>
LinePercent == <<"4", "2", "%", " ", "7", "%", "\n">>
LineMalformed == <<"%", "5", "0", " ", "1", "2", "p", "e", "r", "c", "e", "n", "t", "\n">>
BadBytes == <<"\\xff">>
Lines == {LineText, LinePercent, LineMalformed, BadBytes}
Streams == {"stdout", "stderr"}

\* The programs a child can be: up to MaxWrites writes, then exit.
Writes == [stream : Streams, line : Lines]
Programs == UNION {[1..n -> Writes] : n \in 0..MaxWrites}

Digits == {"0", "1", "2", "3", "4", "5", "6", "7", "8", "9"}
DigitValue(c) ==
    CASE c = "0" -> 0 [] c = "1" -> 1 [] c = "2" -> 2 [] c = "3" -> 3
      [] c = "4" -> 4 [] c = "5" -> 5 [] c = "6" -> 6 [] c = "7" -> 7
      [] c = "8" -> 8 [] c = "9" -> 9

\* int(text) for a run of decimal digits
RECURSIVE ToInt(_)
ToInt(d) ==
    IF d = <<>> THEN 0
    ELSE 10 * ToInt(SubSeq(d, 1, Len(d) - 1)) + DigitValue(d[Len(d)])

\* The end of the longest run of digits that starts at i.
DigitRunEnd(s, i) ==
    SetMax({j \in i..Len(s) : \A k \in i..j : s[k] \in Digits})

\* A variant that takes the rightmost match.
SearchPercent_rightmost(s) ==
    LET starts == {i \in 1..Len(s) :
                      /\ s[i] \in Digits
                      /\ DigitRunEnd(s, i) < Len(s)
                      /\ s[DigitRunEnd(s, i) + 1] = "%"}
    IN  IF starts = {} THEN None
        ELSE LET i == SetMax(starts)
             IN  Some(ToInt(SubSeq(s, i, DigitRunEnd(s, i))))

\* re.search(r'(\d+)%', line): the leftmost run of digits that is directly
\* followed by "%"; None when there is none.  int(match.group(1)).
SearchPercent(s) ==
    LET starts == {i \in 1..Len(s) :
                      /\ s[i] \in Digits
                      /\ DigitRunEnd(s, i) < Len(s)
                      /\ s[DigitRunEnd(s, i) + 1] = "%"}
    IN  IF starts = {} THEN None
        ELSE LET i == SetMin(starts)
             IN  Some(ToInt(SubSeq(s, i, DigitRunEnd(s, i))))

\* "".join(lines)
RECURSIVE Joined(_)
Joined(lines) ==
    IF lines = <<>> THEN <<>> ELSE Head(lines) \o Joined(Tail(lines))

Emit(signal) == signals' = Append(signals, signal)

\* Popen(command, shell=True) starts /bin/sh -c command.  When the program
\* the command line names (sshpass, ssh, scp, rsync) is not installed,
\* Popen still succeeds: the shell reports "not found" on its standard
\* error and exits with status 127.
LineNotFound ==
    <<"s", "h", ":", " ", "s", "s", "h", ":", " ", "n", "o", "t", " ", "f", "o", "u", "n", "d", "\n">>

command_not_found ==
    [state |-> "unstarted", found |-> FALSE,
     program |-> <<[stream |-> "stderr", line |-> LineNotFound]>>,
     todo |-> <<[stream |-> "stderr", line |-> LineNotFound]>>,
     returncode |-> 127]

RunnerInit ==
    /\ alive = TRUE
    /\ ssh_connected = FALSE
    /\ ipa_available = FALSE
    /\ last_generated_ipa_filename = None
    /\ ipa_script_path = None
    /\ all_bundle_paths = <<>>
    /\ bundle_path_combo = [items |-> <<>>, index |-> 0]
    /\ rsync_available = FALSE
    /\ sshpass_available = FALSE
    /\ enabled = update_button_states(FALSE, FALSE, None, 0, FALSE)
    /\ read_only = FALSE
    /\ script_mechanism = 0
    /\ ip_input = InitialIp
    /\ username_input = RootUser
    /\ password_input = <<>>
    /\ remote_script_path_input = DefaultRemoteScript
    /\ local_script_path_input = <<>>
    /\ bundle_filter_input = <<>>
    /\ workers = EmptyBag
    /\ events = <<>>
    /\ modal = <<>>
    /\ pc = "start"
    /\ is_download \in BOOLEAN
    /\ \E found \in BOOLEAN, todo \in Programs, returncode \in ReturnCodes :
          process = IF found
                    THEN [state |-> "unstarted", found |-> TRUE, program |-> todo,
                          todo |-> todo, returncode |-> returncode]
                    ELSE command_not_found
    /\ stdout_pipe = <<>>
    /\ stderr_pipe = <<>>
    /\ stdout_line = <<>>
    /\ stderr_line = <<>>
    /\ stdout_lines = <<>>
    /\ stderr_lines = <<>>
    /\ signals = <<>>

\* log_message.emit and subprocess.Popen succeed: the child runs.
run_popen ==
    /\ pc = "start"
    /\ Emit([name |-> "log_message"])
    /\ process' = [process EXCEPT !.state = "running"]
    /\ pc' = "read_stdout"
    /\ UNCHANGED <<app, is_download, stdout_pipe, stderr_pipe, stdout_line,
                   stderr_line, stdout_lines, stderr_lines>>

\* A variant whose except clauses emit nothing.
run_popen_raises_silently ==
    /\ pc = "start"
    /\ Emit([name |-> "log_message"])
    /\ pc' = "done"
    /\ UNCHANGED <<app, is_download, process, stdout_pipe, stderr_pipe,
                   stdout_line, stderr_line, stdout_lines, stderr_lines>>

\* subprocess.Popen raises (FileNotFoundError, or any other exception): the
\* matching except clause emits error.
run_popen_raises ==
    /\ pc = "start"
    /\ \E exception \in {"FileNotFoundError", "Exception"} :
          signals' = signals \o <<[name |-> "log_message"],
                                  [name |-> "error", exception |-> exception]>>
    /\ pc' = "done"
    /\ UNCHANGED <<app, is_download, process, stdout_pipe, stderr_pipe,
                   stdout_line, stderr_line, stdout_lines, stderr_lines>>

\* stdout_line = process.stdout.readline(): blocks until a line is in the
\* pipe or the pipe is at end of file (the child has exited).
run_read_stdout ==
    /\ pc = "read_stdout"
    /\ stdout_pipe # <<>> \/ process.state = "exited"
    /\ IF stdout_pipe # <<>> /\ Head(stdout_pipe) = BadBytes
       THEN /\ Emit([name |-> "error", exception |-> "Exception"])
            /\ pc' = "done"
            /\ stdout_pipe' = Tail(stdout_pipe)
            /\ UNCHANGED stdout_line
       ELSE /\ stdout_line' = IF stdout_pipe # <<>> THEN Head(stdout_pipe) ELSE <<>>
            /\ stdout_pipe' = IF stdout_pipe # <<>> THEN Tail(stdout_pipe) ELSE <<>>
            /\ pc' = "read_stderr"
            /\ UNCHANGED signals
    /\ UNCHANGED <<app, is_download, process, stderr_pipe, stderr_line,
                   stdout_lines, stderr_lines>>

\* stderr_line = process.stderr.readline()
run_read_stderr ==
    /\ pc = "read_stderr"
    /\ stderr_pipe # <<>> \/ process.state = "exited"
    /\ IF stderr_pipe # <<>> /\ Head(stderr_pipe) = BadBytes
       THEN /\ Emit([name |-> "error", exception |-> "Exception"])
            /\ pc' = "done"
            /\ stderr_pipe' = Tail(stderr_pipe)
            /\ UNCHANGED stderr_line
       ELSE /\ stderr_line' = IF stderr_pipe # <<>> THEN Head(stderr_pipe) ELSE <<>>
            /\ stderr_pipe' = IF stderr_pipe # <<>> THEN Tail(stderr_pipe) ELSE <<>>
            /\ pc' = "handle"
            /\ UNCHANGED signals
    /\ UNCHANGED <<app, is_download, process, stdout_pipe, stdout_line,
                   stdout_lines, stderr_lines>>

\* A variant that leaves the loop on an empty standard-output read alone.
loop_ends_on_stdout(out_line, err_line, exited) ==
    out_line = <<>> /\ exited

\* if not stdout_line and not stderr_line and process.poll() is not None: break
loop_ends(out_line, err_line, exited) ==
    out_line = <<>> /\ err_line = <<>> /\ exited

\* The rest of the loop body: the two lines are appended, a download scans
\* its stdout line for a percentage, and the loop ends when both reads were
\* empty and process.poll() reports the exit.
run_handle_lines ==
    /\ pc = "handle"
    /\ stdout_lines' = IF stdout_line # <<>> THEN Append(stdout_lines, stdout_line)
                       ELSE stdout_lines
    /\ stderr_lines' = IF stderr_line # <<>> THEN Append(stderr_lines, stderr_line)
                       ELSE stderr_lines
    /\ IF stdout_line # <<>> /\ is_download /\ SearchPercent(stdout_line) # None
       THEN Emit([name |-> "progress_update",
                  value |-> SearchPercent(stdout_line)[1]])
       ELSE UNCHANGED signals
    /\ pc' = IF loop_ends(stdout_line, stderr_line, process.state = "exited")
             THEN "wait" ELSE "read_stdout"
    /\ UNCHANGED <<app, is_download, process, stdout_pipe, stderr_pipe,
                   stdout_line, stderr_line>>

\* A variant that logs once more after finished.emit.
run_wait_and_finish_then_logs ==
    /\ pc = "wait"
    /\ process.state = "exited"
    /\ signals' = signals \o
          <<[name |-> "finished", stdout |-> Joined(stdout_lines),
             stderr |-> Joined(stderr_lines), returncode |-> process.returncode],
            [name |-> "log_message"]>>
    /\ pc' = "done"
    /\ UNCHANGED <<app, is_download, process, stdout_pipe, stderr_pipe,
                   stdout_line, stderr_line, stdout_lines, stderr_lines>>

\* process.wait() returns; finished.emit(stdout, stderr, returncode, time_taken)
run_wait_and_finish ==
    /\ pc = "wait"
    /\ process.state = "exited"
    /\ Emit([name |-> "finished", stdout |-> Joined(stdout_lines),
             stderr |-> Joined(stderr_lines), returncode |-> process.returncode])
    /\ pc' = "done"
    /\ UNCHANGED <<app, is_download, process, stdout_pipe, stderr_pipe,
                   stdout_line, stderr_line, stdout_lines, stderr_lines>>

\* The child writes its next line; the write blocks while the pipe is full.
child_write ==
    /\ process.state = "running"
    /\ process.todo # <<>>
    /\ LET w == Head(process.todo)
       IN  IF w.stream = "stdout"
           THEN /\ Len(stdout_pipe) < PipeCapacity
                /\ stdout_pipe' = Append(stdout_pipe, w.line)
                /\ UNCHANGED stderr_pipe
           ELSE /\ Len(stderr_pipe) < PipeCapacity
                /\ stderr_pipe' = Append(stderr_pipe, w.line)
                /\ UNCHANGED stdout_pipe
    /\ process' = [process EXCEPT !.todo = Tail(process.todo)]
    /\ UNCHANGED <<app, pc, is_download, stdout_line, stderr_line, stdout_lines,
                   stderr_lines, signals>>

\* The child has written everything and exits; its ends of the pipes close.
child_exit ==
    /\ process.state = "running"
    /\ process.todo = <<>>
    /\ process' = [process EXCEPT !.state = "exited"]
    /\ UNCHANGED <<app, pc, is_download, stdout_pipe, stderr_pipe, stdout_line,
                   stderr_line, stdout_lines, stderr_lines, signals>>

RunnerStep ==
    \/ run_popen
    \/ run_popen_raises
    \/ run_read_stdout
    \/ run_read_stderr
    \/ run_handle_lines
    \/ run_wait_and_finish

ChildStep ==
    \/ child_write
    \/ child_exit

RunnerNext ==
    \/ run_popen
    \/ run_popen_raises
    \/ run_read_stdout
    \/ run_read_stderr
    \/ run_handle_lines
    \/ run_wait_and_finish
    \/ child_write
    \/ child_exit

\* The thread and the child are both scheduled by the operating system: a
\* step that stays possible is eventually taken.
RunnerSpec ==
    /\ RunnerInit
    /\ [][RunnerNext]_vars
    /\ WF_vars(RunnerStep)
    /\ WF_vars(ChildStep)


\* ------------------------------------------------------------------------
\* Vocabulary of the properties
\* ------------------------------------------------------------------------
MyAppIpa == <<"M", "y", "A", "p", "p", ".", "i", "p", "a">>

\* The number of worker threads of the bag that were created for attr.
CountOf(bag, attr) ==
    BagCardinality([w \in {x \in BagToSet(bag) : x.attr = attr} |-> bag[w]])

\* This step creates and starts a worker for attr.
Started(attr) == CountOf(workers', attr) > CountOf(workers, attr)

\* The worker a step that satisfies Started(attr) has created.
StartedWorker(attr) == CHOOSE w \in BagToSet(workers') : w.attr = attr /\ w.held

\* A worker for attr runs, or its finished signal waits in the queue.
Outstanding(attr, handler) ==
    \/ CountOf(workers, attr) > 0
    \/ \E i \in 1..Len(events) : events[i].handler = handler

\* This step is the GUI thread running the slot handler for the head of the
\* signal queue.
Handles(handler) ==
    /\ events # <<>>
    /\ Head(events).handler = handler
    /\ events' = Tail(events)

\* The three conditions download_ipa_from_iphone asks for.
DownloadLegal ==
    ssh_connected /\ ipa_available /\ last_generated_ipa_filename # None

\* ------------------------------------------------------------------------
\* Session properties
\* ------------------------------------------------------------------------

\* C1: in every reachable state, ipa_available implies that
\* last_generated_ipa_filename holds a name and that the name is not empty.
C1_AvailableHasName ==
    ipa_available =>
        /\ last_generated_ipa_filename # None
        /\ last_generated_ipa_filename[1] # <<>>

\* An execute result with exit status 0 and "IPA: MyApp.ipa" in its output
\* has been handled.
C1_Witness ==
    ipa_available /\ last_generated_ipa_filename = Some(MyAppIpa)

\* C2: in every reachable state, under any interleaving of user requests
\* and worker completions, ipa_available implies ssh_connected.
C2_AvailableOnlyWhileConnected ==
    ipa_available => ssh_connected

Cleared == ~ipa_available /\ last_generated_ipa_filename = None

\* C3: every step that sets ssh_connected to FALSE (Disconnect, a failed
\* connection test) and every step that handles the result of a connection
\* test (so also the one that sets ssh_connected to TRUE) ends with
\* ipa_available FALSE and no archive name.
C3_ConnectionChangeClearsArchive ==
    [][ (\/ ssh_connected /\ ~ssh_connected'
         \/ Handles("on_test_connection_finished"))
        => Cleared' ]_vars

\* A session in which bundles were listed has ended (the catalog outlives
\* the session), and the archive state is cleared.
C3_Witness ==
    ~ssh_connected /\ all_bundle_paths # <<>> /\ Cleared

RequestAttrs == {"transfer_worker", "execute_worker", "bundle_list_worker"}
RequestHandlers == {"on_transfer_finished_and_then_run", "on_execute_finished",
                    "on_bundle_paths_fetched"}

\* A user request (not a slot) starts the worker of attr.
Accepted(attr) == Started(attr) /\ events' = events

\* The slot that handles a failure of one of the three operations runs: a
\* nonzero exit status, or the error signal of its worker.
HandlesFailure ==
    \/ \E h \in RequestHandlers : Handles(h) /\ Head(events).returncode # 0
    \/ Handles("on_worker_error") /\ Head(events).attr \in RequestAttrs

SaveDialogOpens ==
    /\ Len(modal') = Len(modal) + 1
    /\ modal'[Len(modal')].kind = "save_dialog"

SaveDialogCloses ==
    /\ modal # <<>>
    /\ modal[Len(modal)].kind = "save_dialog"
    /\ modal' = SubSeq(modal, 1, Len(modal) - 1)

C6_NoLaunchWhileDisconnected ==
    [][ (\E attr \in RequestAttrs : Started(attr)) => ssh_connected ]_vars

\* C7: no connection test is started while one is outstanding or while the
\* session is connected.
C7_NoSecondConnectionTest ==
    [][ Started("test_worker")
        => /\ ~ssh_connected
           /\ ~Outstanding("test_worker", "on_test_connection_finished") ]_vars

\* "Connected" occurs in the text.
TokenPresent(text) ==
    \E i \in 1..(Len(text) - 8) :
        SubSeq(text, i, i + 8) = <<"C", "o", "n", "n", "e", "c", "t", "e", "d">>

\* C10: the step that handles the result of a connection test leaves the
\* session connected exactly when the exit status is 0 and the captured
\* standard output contains "Connected".
C10_ConnectedIffStatusAndToken ==
    [][ Handles("on_test_connection_finished")
        => (ssh_connected' <=> /\ Head(events).returncode = 0
                               /\ TokenPresent(Head(events).stdout)) ]_vars

\* A connection test has succeeded: the session is connected and offers
\* Disconnect.
C10_Witness ==
    ssh_connected /\ enabled.disconnect_btn /\ read_only

\* ------------------------------------------------------------------------
\* Runner properties
\* ------------------------------------------------------------------------
TerminalSignals ==
    {i \in 1..Len(signals) : signals[i].name \in {"finished", "error"}}

\* C8: a run that has completed has emitted exactly one of finished and
\* error, and a run that has not completed has emitted neither.
C8_ExactlyOneTerminalSignal ==
    Cardinality(TerminalSignals) = (IF pc = "done" THEN 1 ELSE 0)

\* A run has completed with finished after capturing output.
C8_Witness ==
    /\ pc = "done"
    /\ stdout_lines # <<>>
    /\ \E i \in 1..Len(signals) : signals[i].name = "finished"

\* C9: once the child process runs, whatever it writes to its two pipes
\* before it exits, the runner eventually completes with a terminal signal.
C9_RunnerEventuallyCompletes ==
    (process.state = "running") ~> (pc = "done")

\* ------------------------------------------------------------------------
\* Failure handling
\* ------------------------------------------------------------------------
\* The error box of a worker of one of attrs is closed: on_worker_error has
\* run to its end for that worker.
ErrorHandled(attrs) ==
    /\ modal # <<>>
    /\ modal[Len(modal)].kind = "error_box"
    /\ modal[Len(modal)].args.attr \in attrs
    /\ modal' = SubSeq(modal, 1, Len(modal) - 1)

\* C11: once a connection test that ended with a nonzero exit status,
\* without "Connected" in its output, or with the error signal has been
\* handled, ssh_connected is FALSE.
C11_FailedTestDisconnects ==
    [][ (\/ /\ Handles("on_test_connection_finished")
            /\ ~(Head(events).returncode = 0 /\ TokenPresent(Head(events).stdout))
         \/ ErrorHandled({"test_worker"}))
        => ~ssh_connected' ]_vars

OperationAttrs == {"transfer_worker", "execute_worker", "bundle_list_worker",
                   "download_worker"}

\* C12: once the error signal of a transfer, execute, list or download
\* worker has been handled, ssh_connected is FALSE and the archive state is
\* cleared.
C12_ErrorDisconnects ==
    [][ ErrorHandled(OperationAttrs) => (~ssh_connected' /\ Cleared') ]_vars

\* ------------------------------------------------------------------------
\* Handling the result of an execution, over many outputs
\* ------------------------------------------------------------------------
\* Lines the remote script may print.
LineIpaA == <<"I", "P", "A", ":", " ", "A", ".", "i", "p", "a", "\n">>
LineIpaB == <<"I", "P", "A", ":", " ", " ", "B", ".", "i", "p", "a", " ", "\n">>
LineNoSuffix == <<"I", "P", "A", ":", " ", "x", "\n">>
LineTwoMarkers ==
    <<"I", "P", "A", ":", " ", "A", ".", "i", "p", "a", " ", "I", "P", "A", ":", " ", "B", ".", "i", "p", "a", "\n">>
ExecuteLines == {LineIpaA, LineIpaB, LineNoSuffix, LineTwoMarkers, OutDone, OutIpaMyApp}

\* Lines of one output of the remote script.
MaxOutputLines == 3

ExecuteOutputs ==
    {Joined(ls) : ls \in UNION {[1..n -> ExecuteLines] : n \in 0..MaxOutputLines}}

\* A connected session whose execute worker has just reported: the finished
\* signal is queued with the output and the exit status of the script.
ExecuteInit ==
    /\ alive = TRUE
    /\ ssh_connected = TRUE
    /\ ipa_available = FALSE
    /\ last_generated_ipa_filename = None
    /\ ipa_script_path = None
    /\ all_bundle_paths = ParseBundlePaths(OutBundles)
    /\ bundle_path_combo = [items |-> ParseBundlePaths(OutBundles), index |-> 1]
    /\ rsync_available \in BOOLEAN
    /\ sshpass_available \in BOOLEAN
    /\ enabled = AllDisabled
    /\ read_only = TRUE
    /\ script_mechanism = 1
    /\ ip_input = InitialIp
    /\ username_input = RootUser
    /\ password_input = <<>>
    /\ remote_script_path_input = DefaultRemoteScript
    /\ local_script_path_input = <<>>
    /\ bundle_filter_input = <<>>
    /\ workers = EmptyBag
    /\ \E stdout \in ExecuteOutputs, returncode \in ReturnCodes :
          events = <<[signal |-> "finished", handler |-> "on_execute_finished",
                      attr |-> "execute_worker", args |-> <<>>,
                      remote_path |-> DefaultRemoteScript,
                      stdout |-> stdout, returncode |-> returncode]>>
    /\ modal = <<>>
    /\ RunnerParked

ExecuteNext == on_execute_finished

ExecuteSpec == ExecuteInit /\ [][ExecuteNext]_vars

AIpa == <<"A", ".", "i", "p", "a">>

\* Positions of a line where "IPA: " begins and, at least one character
\* further on, ".ipa" still follows on the line.
MarkerStarts(line) ==
    {i \in 1..Len(line) :
        /\ i + 4 <= Len(line)
        /\ SubSeq(line, i, i + 4) = <<"I", "P", "A", ":", " ">>
        /\ \E e \in (i + 9)..Len(line) :
              SubSeq(line, e - 3, e) = <<".", "i", "p", "a">>}

\* Positions of a line where ".ipa" ends.
SuffixEnds(line) ==
    {e \in 4..Len(line) : SubSeq(line, e - 3, e) = <<".", "i", "p", "a">>}

\* The lines of a text that carry a marker, in order.
MarkerLines(text) == SelectSeq(SplitLines(text), LAMBDA l : MarkerStarts(l) # {})

\* The name the first marker line gives: what stands between its first
\* "IPA: " and its last ".ipa", suffix included, without surrounding blanks.
FirstMarkerName(text) ==
    LET line == Head(MarkerLines(text))
    IN  Strip(SubSeq(line, SetMin(MarkerStarts(line)) + 5, SetMax(SuffixEnds(line))))

\* C13: when the result of an execution with exit status 0 and a marker
\* "IPA: <name>.ipa" in its output is handled, ipa_available becomes TRUE and
\* the stored name is the one of the first marker; "IPA: MyApp.ipa" alone
\* gives "MyApp.ipa".
C13_FirstMarkerNamesArchive ==
    [][ (/\ Handles("on_execute_finished")
         /\ Head(events).returncode = 0
         /\ MarkerLines(Head(events).stdout) # <<>>)
        => /\ ipa_available'
           /\ last_generated_ipa_filename' = Some(FirstMarkerName(Head(events).stdout))
           /\ (Head(events).stdout = OutIpaMyApp
                  => last_generated_ipa_filename' = Some(MyAppIpa)) ]_vars

\* A result naming A.ipa has been handled and the buttons are restored.
C13_Witness ==
    /\ ipa_available
    /\ last_generated_ipa_filename = Some(AIpa)
    /\ events = <<>>
    /\ enabled.run_script_btn

\* C14: when the result of an execution with exit status 0 and no marker
\* in its output is handled, ipa_available is FALSE and no name is stored,
\* ssh_connected is unchanged, and the log shows the orange warning about
\* the undetected name and not the red failure report, which in turn is
\* what a nonzero exit status gets.
C14_MissingMarkerIsWarning ==
    [][ Handles("on_execute_finished")
        => LET log == execute_log(Head(events).returncode, Head(events).stdout)
               warned == \E i \in 1..Len(log) :
                            log[i] = [message |-> "undetected", color |-> "orange"]
               failed == \E i \in 1..Len(log) : log[i].message = "failed"
           IN  /\ (Head(events).returncode = 0
                   /\ MarkerLines(Head(events).stdout) = <<>>)
                    => /\ Cleared'
                       /\ ssh_connected' = ssh_connected
                       /\ warned /\ ~failed
               /\ Head(events).returncode # 0 => (failed /\ ~warned) ]_vars

\* A result without an archive has been handled in a connected session: the
\* archive state is cleared and the buttons are restored without Download.
C14_Witness ==
    /\ ssh_connected
    /\ Cleared
    /\ events = <<>>
    /\ enabled.run_script_btn
    /\ ~enabled.download_ipa_btn

\* ------------------------------------------------------------------------
\* Sequencing
\* ------------------------------------------------------------------------
\* C15: an execute worker that is not started by a click on Run is started
\* only by the slot that handles a finished transfer with exit status 0;
\* the transfer request itself starts none, and neither does the handling
\* of a transfer with a nonzero exit status or of a worker error.
C15_ExecuteOnlyAfterTransferSucceeded ==
    [][ /\ (Started("execute_worker") /\ events' # events)
            => /\ Handles("on_transfer_finished_and_then_run")
               /\ Head(events).returncode = 0
        /\ Accepted("transfer_worker") => ~Started("execute_worker")
        /\ (/\ Handles("on_transfer_finished_and_then_run")
            /\ Head(events).returncode # 0) => ~Started("execute_worker")
        /\ (Handles("on_worker_error") \/ ErrorHandled(OperationAttrs))
            => ~Started("execute_worker") ]_vars

\* The execution that follows a successful transfer runs: the mechanism is
\* still "SCP Script", every button is still disabled and the execute
\* worker is the only one outstanding.
C15_Witness ==
    /\ ssh_connected
    /\ script_mechanism = 0
    /\ enabled = AllDisabled
    /\ events = <<>>
    /\ BagCardinality(workers) = 1
    /\ CountOf(workers, "execute_worker") = 1

\* ------------------------------------------------------------------------
\* Outcomes of started workers
\* ------------------------------------------------------------------------
\* C16: no outcome of a started worker is lost: as long as a worker runs or
\* its terminal signal waits in the queue, the application is there to
\* receive it, also when other operations were requested in between.
C16_NoOutcomeLost ==
    (workers # EmptyBag \/ events # <<>>) => alive

\* ------------------------------------------------------------------------
\* Executions of one command
\* ------------------------------------------------------------------------
\* C17: when the program the command line names is not installed, the
\* finished execution has emitted exactly one error signal and no finished
\* signal.
C17_MissingExecutableIsLaunchError ==
    (~process.found /\ pc = "done")
        => /\ Cardinality({i \in 1..Len(signals) : signals[i].name = "error"}) = 1
           /\ \A i \in 1..Len(signals) : signals[i].name # "finished"

\* The positions of the "%" signs of a line that close a well-formed token.
PercentEnds(line) ==
    {j \in 2..Len(line) : line[j] = "%" /\ line[j - 1] \in Digits}

\* The number written directly before the "%" at position j.
TokenAt(line, j) ==
    LET first == SetMin({i \in 1..(j - 1) : \A k \in i..(j - 1) : line[k] \in Digits})
    IN  ToInt(SubSeq(line, first, j - 1))

FirstToken(line) == TokenAt(line, SetMin(PercentEnds(line)))
LastToken(line) == TokenAt(line, SetMax(PercentEnds(line)))

\* The values of the progress_update signals emitted so far, in order.
RECURSIVE ProgressValues(_)
ProgressValues(sigs) ==
    IF sigs = <<>> THEN <<>>
    ELSE IF Head(sigs).name = "progress_update"
         THEN <<Head(sigs).value>> \o ProgressValues(Tail(sigs))
         ELSE ProgressValues(Tail(sigs))

\* One value for every line that holds a well-formed token: its first one,
\* or its last one.
RECURSIVE FirstTokens(_)
FirstTokens(lines) ==
    IF lines = <<>> THEN <<>>
    ELSE IF PercentEnds(Head(lines)) # {}
         THEN <<FirstToken(Head(lines))>> \o FirstTokens(Tail(lines))
         ELSE FirstTokens(Tail(lines))

RECURSIVE LastTokens(_)
LastTokens(lines) ==
    IF lines = <<>> THEN <<>>
    ELSE IF PercentEnds(Head(lines)) # {}
         THEN <<LastToken(Head(lines))>> \o LastTokens(Tail(lines))
         ELSE LastTokens(Tail(lines))

\* An error signal has a cause other than a malformed token: Popen raised,
\* or a line that could not be decoded was read.
ErrorHasCause ==
    (\E i \in 1..Len(signals) : signals[i].name = "error")
        => \/ process.state = "unstarted"
           \/ \E i \in 1..Len(process.program) : process.program[i].line = BadBytes

\* C18 as stated: the progress values emitted so far are, for a download,
\* one per standard-output line read that holds a well-formed token, the
\* value being the last token of the line; no other execution and no
\* standard-error line emits progress, and a malformed token gives neither a
\* progress value nor an error.
C18_ProgressIsLastToken ==
    /\ ProgressValues(signals) = IF is_download THEN LastTokens(stdout_lines) ELSE <<>>
    /\ ErrorHasCause

\* C18 as the code has it: the same, the value being the first token of
\* the line ("42% 7%" reports 42).
C18_ProgressIsFirstToken ==
    /\ ProgressValues(signals) = IF is_download THEN FirstTokens(stdout_lines) ELSE <<>>
    /\ ErrorHasCause

\* A download has finished after its child wrote the line with two tokens
\* and the malformed line to standard output and a line with tokens to
\* standard error: the only progress value is 42.
C18_Witness ==
    /\ is_download
    /\ pc = "done"
    /\ signals[Len(signals)].name = "finished"
    /\ \E i \in 1..Len(stdout_lines) : stdout_lines[i] = LinePercent
    /\ \E i \in 1..Len(stdout_lines) : stdout_lines[i] = LineMalformed
    /\ \E i \in 1..Len(stderr_lines) : stderr_lines[i] = LinePercent
    /\ ProgressValues(signals) = <<42>>

\* The lines a program writes to one stream, in the order written.
RECURSIVE WrittenTo(_, _)
WrittenTo(stream, program) ==
    IF program = <<>> THEN <<>>
    ELSE IF Head(program).stream = stream
         THEN <<Head(program).line>> \o WrittenTo(stream, Tail(program))
         ELSE WrittenTo(stream, Tail(program))

\* C19: a finished signal is emitted only when the child has written
\* everything and exited and both pipes have been read to their end; its
\* stdout and stderr are the lines the child wrote to that stream, each
\* once and in the order written, and its returncode is the child's.
C19_FinishedCarriesCompleteOutput ==
    \A i \in 1..Len(signals) :
        signals[i].name = "finished"
            => /\ process.state = "exited"
               /\ process.todo = <<>>
               /\ stdout_pipe = <<>> /\ stderr_pipe = <<>>
               /\ stdout_line = <<>> /\ stderr_line = <<>>
               /\ signals[i].stdout = Joined(WrittenTo("stdout", process.program))
               /\ signals[i].stderr = Joined(WrittenTo("stderr", process.program))
               /\ signals[i].returncode = process.returncode

\* An execution has finished whose child wrote three lines, to both
\* streams, more of them to standard error.
C19_Witness ==
    /\ pc = "done"
    /\ signals[Len(signals)].name = "finished"
    /\ Len(process.program) = MaxWrites
    /\ Len(WrittenTo("stderr", process.program)) = 2
    /\ signals[Len(signals)].stdout = LineText
    /\ signals[Len(signals)].stderr = LinePercent \o LineMalformed
    /\ signals[Len(signals)].returncode = 1

\* ------------------------------------------------------------------------
\* The bundle catalog and its filtered view
\* ------------------------------------------------------------------------
\* Lines the remote "ls" may print.
LineFoo == <<"F", "o", "o", "\n">>
LineBar == <<"b", "a", "r", "\n">>
LineBaz == <<" ", "B", "a", "z", " ", "\n">>
LineBlank == <<" ", "\n">>
CatalogLines == {LineFoo, LineBar, LineBaz, LineBlank}
MaxCatalogLines == 3
OutNoFinalNewline == <<"F", "o", "o", "\n", "\n", "b", "a", "r">>
CatalogOutputs ==
    {Joined(ls) : ls \in UNION {[1..n -> CatalogLines] : n \in 0..MaxCatalogLines}}
        \cup {OutBundles, OutNoFinalNewline}

\* A connected session whose bundle list worker has just reported: the
\* finished signal is queued with what "ls" printed; the catalog is still
\* empty and the filter input holds whatever the user has typed so far.
CatalogInit ==
    /\ alive = TRUE
    /\ ssh_connected = TRUE
    /\ ipa_available = FALSE
    /\ last_generated_ipa_filename = None
    /\ ipa_script_path = None
    /\ all_bundle_paths = <<>>
    /\ bundle_path_combo = [items |-> <<>>, index |-> 0]
    /\ rsync_available \in BOOLEAN
    /\ sshpass_available = FALSE
    /\ enabled = [AllDisabled EXCEPT !.disconnect_btn = TRUE]
    /\ read_only = TRUE
    /\ script_mechanism = 1
    /\ ip_input = InitialIp
    /\ username_input = RootUser
    /\ password_input = <<>>
    /\ remote_script_path_input = DefaultRemoteScript
    /\ local_script_path_input = <<>>
    /\ bundle_filter_input \in FilterValues
    /\ workers = EmptyBag
    /\ \E stdout \in CatalogOutputs, returncode \in ReturnCodes :
          events = <<[signal |-> "finished", handler |-> "on_bundle_paths_fetched",
                      attr |-> "bundle_list_worker", args |-> <<>>,
                      remote_path |-> <<>>,
                      stdout |-> stdout, returncode |-> returncode]>>
    /\ modal = <<>>
    /\ RunnerParked

CatalogNext ==
    \/ on_bundle_paths_fetched
    \/ filter_bundle_paths_changed
    \/ select_bundle_path

CatalogSpec == CatalogInit /\ [][CatalogNext]_vars

LowerLetters ==
    <<"a", "b", "c", "d", "e", "f", "g", "h", "i", "j", "k", "l", "m",
      "n", "o", "p", "q", "r", "s", "t", "u", "v", "w", "x", "y", "z">>
UpperLetters ==
    <<"A", "B", "C", "D", "E", "F", "G", "H", "I", "J", "K", "L", "M",
      "N", "O", "P", "Q", "R", "S", "T", "U", "V", "W", "X", "Y", "Z">>

\* The same character, or the two cases of one letter.
SameLetter(a, b) ==
    \/ a = b
    \/ \E n \in 1..Len(LowerLetters) : {a, b} = {LowerLetters[n], UpperLetters[n]}

\* text occurs in path when the case of letters is ignored.
OccursIgnoringCase(text, path) ==
    \E i \in 1..(Len(path) - Len(text) + 1) :
        \A k \in 1..Len(text) : SameLetter(text[k], path[i + k - 1])

FooEntry == ls_path \o <<"F", "o", "o", "/">>
BarEntry == ls_path \o <<"b", "a", "r", "/">>
BazEntry == ls_path \o <<"B", "a", "z", "/">>

\* C20: after a change of the filter text the combo box holds exactly the
\* catalog entries in which the new text occurs when case is ignored, in
\* catalog order, or the whole catalog when the new text is empty, and the
\* catalog itself is what it was; the catalog of Foo, bar and Baz filtered
\* by "ba" gives the entries of bar and Baz.
C20_FilterIsCaseInsensitiveSubsequence ==
    [][ bundle_filter_input' # bundle_filter_input
        => /\ all_bundle_paths' = all_bundle_paths
           /\ bundle_path_combo'.items =
                 IF bundle_filter_input' = <<>> THEN all_bundle_paths
                 ELSE SelectSeq(all_bundle_paths,
                        LAMBDA path : OccursIgnoringCase(bundle_filter_input', path))
           /\ (/\ all_bundle_paths = <<FooEntry, BarEntry, BazEntry>>
               /\ bundle_filter_input' = FilterBa)
                => bundle_path_combo'.items = <<BarEntry, BazEntry>> ]_vars

\* The catalog of Foo, bar and Baz is filtered by "BA": the view holds the
\* entries of bar and Baz.
C20_Witness ==
    /\ all_bundle_paths = <<FooEntry, BarEntry, BazEntry>>
    /\ bundle_filter_input = FilterBaUpper
    /\ bundle_path_combo.items = <<BarEntry, BazEntry>>
    /\ events = <<>>

\* The positions of a text where a line begins, and where that line ends
\* (the position before its newline, or the end of the text).
LineStarts(text) ==
    {a \in 1..Len(text) : a = 1 \/ text[a - 1] = "\n"}
LineEnd(text, a) ==
    LET newlines == {j \in a..Len(text) : text[j] = "\n"}
    IN  IF newlines = {} THEN Len(text) ELSE SetMin(newlines) - 1

\* The characters of the line at a that are not white space.
InkOf(text, a) ==
    {j \in a..LineEnd(text, a) : text[j] \notin {" ", "\t", "\r"}}

\* One entry for every line that is not blank, in the order of the lines:
\* the applications root, the line without the white space around it, "/".
EntriesOfOutput(text) ==
    LET starts == {a \in LineStarts(text) : InkOf(text, a) # {}}
        nth(k) == CHOOSE a \in starts : Cardinality({b \in starts : b <= a}) = k
    IN  [k \in 1..Cardinality(starts) |->
            ls_path
              \o SubSeq(text, SetMin(InkOf(text, nth(k))), SetMax(InkOf(text, nth(k))))
              \o <<"/">>]

ComFooEntry == ls_path \o <<"c", "o", "m", ".", "f", "o", "o", ".", "A", "p", "p", "/">>
ComBarEntry == ls_path \o <<"c", "o", "m", ".", "b", "a", "r", ".", "A", "p", "p", "2", "/">>

\* C21: when the result of a bundle listing with exit status 0 is handled,
\* the catalog becomes one entry per line of the output that is not blank,
\* in the order of the lines, each the applications root followed by the
\* trimmed line and "/"; "com.foo.App\ncom.bar.App2\n" gives the two
\* entries of com.foo.App and com.bar.App2.
C21_CatalogIsOneEntryPerLine ==
    [][ (Handles("on_bundle_paths_fetched") /\ Head(events).returncode = 0)
        => /\ all_bundle_paths' = EntriesOfOutput(Head(events).stdout)
           /\ (Head(events).stdout = OutBundles
                  => all_bundle_paths' = <<ComFooEntry, ComBarEntry>>) ]_vars

\* The listing "Foo", blank line, " Baz " has been handled: two entries.
C21_Witness ==
    /\ events = <<>>
    /\ all_bundle_paths = <<FooEntry, BazEntry>>
    /\ bundle_path_combo.items = <<FooEntry, BazEntry>>

\* ------------------------------------------------------------------------
\* Download
\* ------------------------------------------------------------------------
\* Nothing is outstanding: no worker runs, no signal waits and no dialog is
\* open.
Idle ==
    alive /\ workers = EmptyBag /\ events = <<>> /\ modal = <<>>

\* C22: a legal download is permitted with either value of rsync_available:
\* whenever nothing is outstanding and the session is connected with an
\* archive available and its name known, the download button can be clicked.
C22_DownloadPermittedWithEitherCapability ==
    (Idle /\ DownloadLegal) => enabled.download_ipa_btn

\* Remote script paths the user may have typed before connecting, and
\* archive names an execution may have reported.
RelativeScript == <<"x", ".", "s", "h">>
RootScript == <<"/", "x", ".", "s", "h">>
OptScript == <<"/", "o", "p", "t", "/", "x", "/", "r", "u", "n", ".", "s", "h">>
TmpAIpa == <<"/", "t", "m", "p", "/", "A", ".", "i", "p", "a">>
ScriptPathValues == {DefaultRemoteScript, RelativeScript, RootScript, OptScript}
IpaNameValues == {MyAppIpa, TmpAIpa}

\* A connected session in which an execution of the script at
\* remote_script_path_input has just reported an archive: nothing is
\* outstanding and the buttons are as _update_button_states left them.
DownloadInit ==
    /\ alive = TRUE
    /\ ssh_connected = TRUE
    /\ ipa_available = TRUE
    /\ last_generated_ipa_filename \in {Some(name) : name \in IpaNameValues}
    /\ remote_script_path_input \in ScriptPathValues
    /\ ipa_script_path = Some(remote_script_path_input)
    /\ all_bundle_paths = ParseBundlePaths(OutBundles)
    /\ bundle_path_combo = [items |-> ParseBundlePaths(OutBundles), index |-> 1]
    /\ rsync_available \in BOOLEAN
    /\ sshpass_available \in BOOLEAN
    /\ script_mechanism \in {0, 1}
    /\ enabled = update_button_states(TRUE, TRUE, last_generated_ipa_filename,
                                      script_mechanism, rsync_available)
    /\ read_only = TRUE
    /\ ip_input = InitialIp
    /\ username_input = RootUser
    /\ password_input \in PasswordValues
    /\ local_script_path_input = <<>>
    /\ bundle_filter_input = <<>>
    /\ workers = EmptyBag
    /\ events = <<>>
    /\ modal = <<>>
    /\ RunnerParked

DownloadNext ==
    \/ download_ipa_from_iphone
    \/ download_ipa_save_dialog_closed
    \/ on_ipa_download_finished
    \/ on_worker_error
    \/ on_worker_error_box_closed
    \/ update_script_mechanism_ui
    \/ \E w \in BagToSet(workers) : WorkerFinished(w)
    \/ \E w \in BagToSet(workers) : WorkerError(w)

DownloadSpec == DownloadInit /\ [][DownloadNext]_vars

\* The directory part of a path: what stands before its last "/", without
\* the slashes at its end unless it consists of slashes only.
DirectoryOf(path) ==
    LET slashes == {i \in 1..Len(path) : path[i] = "/"}
        upto == IF slashes = {} THEN 0 ELSE SetMax(slashes)
        solid == {i \in 1..upto : path[i] # "/"}
    IN  IF solid = {} THEN SubSeq(path, 1, upto)
        ELSE SubSeq(path, 1, SetMax(solid))

\* The remote path of the download request this step opens the dialog for.
RequestedPath == modal'[Len(modal')].args.remote_ipa_full_path

TypedInit ==
    /\ RunnerParked
    /\ alive = TRUE
    /\ ssh_connected = FALSE
    /\ ipa_available = FALSE
    /\ last_generated_ipa_filename = None
    /\ ipa_script_path = None
    /\ all_bundle_paths = <<>>
    /\ bundle_path_combo = [items |-> <<>>, index |-> 0]
    /\ rsync_available = TRUE
    /\ sshpass_available \in BOOLEAN
    /\ enabled = update_button_states(FALSE, FALSE, None, 0, FALSE)
    /\ read_only = FALSE
    /\ script_mechanism = 0
    /\ ip_input = InitialIp
    /\ username_input = RootUser
    /\ password_input \in PasswordValues
    /\ remote_script_path_input = OptScript
    /\ local_script_path_input = LocalScriptFile
    /\ bundle_filter_input = <<>>
    /\ workers = EmptyBag
    /\ events = <<>>
    /\ modal = <<>>

TypedSpec == TypedInit /\ [][Next]_vars

WorkerAttrs == {"test_worker"} \cup OperationAttrs

\* The action kind the worker of an attribute is built for.
ActionOf(attr) ==
    CASE attr = "test_worker" -> "test_connection"
      [] attr = "transfer_worker" -> "transfer"
      [] attr = "execute_worker" -> "execute"
      [] attr = "bundle_list_worker" -> "list_bundles"
      [] attr = "download_worker" -> "download_ipa"

SshpassPrefix(password) ==
    <<"s", "s", "h", "p", "a", "s", "s", " ", "-", "p", " ", "'">> \o password \o <<"'", " ">>

\* C24: the command line of every worker that is started, of whichever
\* action kind, is built with the password of the input field and is the
\* base command of its action behind "sshpass -p '<password>' " when
\* sshpass is available and the password is not empty, and the base command
\* itself in every other case.
C24_WrappedIffPasswordAndSshpass ==
    [][ \A attr \in WorkerAttrs :
          Started(attr)
            => LET r == StartedWorker(attr).request
                   base == BaseCommand(r.action, r.ip, r.username, r.remote_path,
                                       r.local_path, r.bundle_path, r.remote_ls_path,
                                       r.remote_ipa_full_path, r.local_save_path,
                                       rsync_available)
               IN  /\ r.action = ActionOf(attr)
                   /\ r.password = password_input
                   /\ CommandOf(r) = IF sshpass_available /\ r.password # <<>>
                                     THEN SshpassPrefix(r.password) \o base
                                     ELSE base ]_vars

\* Workers run whose command lines are wrapped, and workers whose command
\* lines are not although a password was typed: a download on a machine
\* with sshpass, and one on a machine without.
C24_Witness ==
    \E w \in BagToSet(workers) :
        /\ w.attr = "download_worker"
        /\ w.request.password = SomePassword
        /\ sshpass_available
        /\ SubSeq(CommandOf(w.request), 1, 7) = <<"s", "s", "h", "p", "a", "s", "s">>

\* ------------------------------------------------------------------------
\* Slots
\* ------------------------------------------------------------------------
\* The worker attributes of the four operation kinds.
Slots ==
    {{"test_worker"}, {"transfer_worker", "execute_worker"},
     {"bundle_list_worker"}, {"download_worker"}}

\* The number of workers of a slot that run or whose terminal signal waits
\* to be handled.
OutstandingIn(slot) ==
    LET running == {w \in BagToSet(workers) : w.attr \in slot}
    IN  BagCardinality([w \in running |-> workers[w]])
          + Cardinality({i \in 1..Len(events) : events[i].attr \in slot})

\* C25: at no time are two workers of one slot outstanding.
C25_OneWorkerPerSlot ==
    \A slot \in Slots : OutstandingIn(slot) <= 1

\* ------------------------------------------------------------------------
\* Where the archive is looked for
\* ------------------------------------------------------------------------
\* C26: whenever a download is requested and goes on to its save dialog,
\* the directory it resolves the archive from is the directory of the
\* remote script whose execution set last_generated_ipa_filename, whatever
\* happened in between.
C26_DownloadFromBesideTheScript ==
    [][ SaveDialogOpens
        => /\ ipa_script_path # None
           /\ DirectoryOf(Strip(remote_script_path_input))
                 = DirectoryOf(ipa_script_path[1]) ]_vars

\* ------------------------------------------------------------------------
\* What keeps and what clears the archive state
\* ------------------------------------------------------------------------
\* This step is a click on Disconnect.
Disconnects ==
    ssh_connected /\ ~ssh_connected' /\ events' = events /\ workers' = workers

SessionKept ==
    /\ ssh_connected' = ssh_connected
    /\ ipa_available' = ipa_available
    /\ last_generated_ipa_filename' = last_generated_ipa_filename

\* C27: a name, once set, is cleared only by a click on Disconnect, by the
\* start of a connection test or by the start of a transfer, an execution
\* or a bundle listing; a download request (the save dialog opening and
\* closing, the worker starting), the handling of a finished download with
\* any exit status, and a change of the filter text leave ssh_connected,
\* ipa_available and the name as they are.
C27_NameClearedOnlyByNewOperation ==
    [][ /\ (last_generated_ipa_filename # None /\ last_generated_ipa_filename' = None)
            => \/ Disconnects
               \/ Started("test_worker")
               \/ \E attr \in RequestAttrs : Accepted(attr)
        /\ (SaveDialogOpens \/ SaveDialogCloses \/ Started("download_worker"))
            => SessionKept
        /\ Handles("on_ipa_download_finished") => SessionKept
        /\ bundle_filter_input' # bundle_filter_input => SessionKept ]_vars

\* ------------------------------------------------------------------------
\* Results with a nonzero exit status
\* ------------------------------------------------------------------------
\* The texts the failure branches of the four result slots look for, and a
\* standard error that holds none of them.
PermissionDenied ==
    <<"P", "e", "r", "m", "i", "s", "s", "i", "o", "n", " ", "d", "e", "n", "i", "e", "d">>
NoSuchFile ==
    <<"N", "o", " ", "s", "u", "c", "h", " ", "f", "i", "l", "e", " ", "o", "r", " ", "d", "i", "r", "e", "c", "t", "o", "r", "y">>
CommandNotFound ==
    <<"c", "o", "m", "m", "a", "n", "d", " ", "n", "o", "t", " ", "f", "o", "u", "n", "d">>
BundleDirMissing ==
    <<"E", "r", "r", "o", "r", ":", " ", "a", "p", "p", "l", "i", "c", "a", "t", "i", "o", "n", " ", "b", "u", "n", "d", "l", "e", " ", "d", "i", "r", "e", "c", "t", "o", "r", "y", " ", "D", "O", "E", "S", " ", "N", "O", "T", " ", "e", "x", "i", "s", "t", "s", ".">>
AppDirMissing ==
    <<"E", "r", "r", "o", "r", ":", " ", "a", "p", "p", "l", "i", "c", "a", "t", "i", "o", "n", " ", ".", "a", "p", "p", " ", "d", "i", "r", "e", "c", "t", "o", "r", "y", " ", "D", "O", "E", "S", " ", "N", "O", "T", " ", "e", "x", "i", "s", "t", "s", ".">>
ErrTimedOut ==
    <<"s", "s", "h", ":", " ", "c", "o", "n", "n", "e", "c", "t", " ", "t", "o", " ", "h", "o", "s", "t", ":", " ", "t", "i", "m", "e", "d", " ", "o", "u", "t", "\n">>

StderrValues ==
    {<<>>, PermissionDenied \o <<"\n">>, <<"s", "c", "p", ":", " ">> \o NoSuchFile \o <<"\n">>,
     <<"s", "h", ":", " ">> \o CommandNotFound \o <<"\n">>, ErrTimedOut}
FailureStdoutValues == {<<>>, BundleDirMissing \o <<"\n">>, AppDirMissing \o <<"\n">>}
FailureCodes == {1, 255}
ResultHandlers ==
    {"on_transfer_finished_and_then_run", "on_execute_finished",
     "on_bundle_paths_fetched", "on_ipa_download_finished"}

AttrOf(handler) ==
    CASE handler = "on_transfer_finished_and_then_run" -> "transfer_worker"
      [] handler = "on_execute_finished" -> "execute_worker"
      [] handler = "on_bundle_paths_fetched" -> "bundle_list_worker"
      [] handler = "on_ipa_download_finished" -> "download_worker"

\* The if/elif chains of the failure branches: which advice is logged after
\* the report of the exit status.
failure_advice(handler, stdout, stderr, sshpass, password) ==
    CASE handler = "on_ipa_download_finished" ->
            IF Contains(NoSuchFile, stderr) THEN "not_found"
            ELSE IF Contains(PermissionDenied, stderr) THEN "access_denied"
            ELSE "none"
      [] handler = "on_execute_finished" ->
            IF Contains(PermissionDenied, stderr) THEN "access_denied"
            ELSE IF Contains(CommandNotFound, stderr) THEN "command_not_found"
            ELSE IF Contains(BundleDirMissing, stdout) \/ Contains(AppDirMissing, stdout)
                 THEN "bundle_path_wrong"
            ELSE IF ~sshpass /\ password # <<>> THEN "sshpass_missing"
            ELSE "none"
      [] OTHER ->
            IF Contains(PermissionDenied, stderr) THEN "access_denied"
            ELSE IF Contains(NoSuchFile, stderr) THEN "not_found"
            ELSE IF ~sshpass /\ password # <<>> THEN "sshpass_missing"
            ELSE "none"

AdviceKinds ==
    {"access_denied", "not_found", "command_not_found", "bundle_path_wrong",
     "sshpass_missing", "none"}

\* A connected session in which the worker of one of the four operations
\* has just reported a nonzero exit status: the finished signal is queued,
\* the buttons are as the request left them.
FailureInit ==
    /\ alive = TRUE
    /\ ssh_connected = TRUE
    /\ all_bundle_paths = ParseBundlePaths(OutBundles)
    /\ bundle_path_combo = [items |-> ParseBundlePaths(OutBundles), index |-> 1]
    /\ sshpass_available \in BOOLEAN
    /\ script_mechanism \in {0, 1}
    /\ read_only = TRUE
    /\ ip_input = InitialIp
    /\ username_input = RootUser
    /\ password_input \in PasswordValues
    /\ remote_script_path_input = DefaultRemoteScript
    /\ local_script_path_input = <<>>
    /\ bundle_filter_input = <<>>
    /\ workers = EmptyBag
    /\ modal = <<>>
    /\ RunnerParked
    /\ \E handler \in ResultHandlers, returncode \in FailureCodes,
          stderr \in StderrValues, stdout \in FailureStdoutValues :
          /\ handler # "on_execute_finished" => stdout = <<>>
          /\ events = <<[signal |-> "finished", handler |-> handler,
                         attr |-> AttrOf(handler),
                         args |-> [ip |-> Strip(ip_input),
                                   username |-> Strip(username_input),
                                   password |-> password_input,
                                   remote_script |-> DefaultRemoteScript,
                                   bundle_path |-> bundle_path_combo.items[1]],
                         remote_path |-> DefaultRemoteScript,
                         stdout |-> stdout, stderr |-> stderr,
                         returncode |-> returncode]>>
          /\ IF handler = "on_ipa_download_finished"
             THEN /\ ipa_available = TRUE
                  /\ last_generated_ipa_filename = Some(MyAppIpa)
                  /\ ipa_script_path = Some(DefaultRemoteScript)
                  /\ rsync_available = TRUE
             ELSE /\ ipa_available = FALSE
                  /\ last_generated_ipa_filename = None
                  /\ ipa_script_path = None
                  /\ rsync_available \in BOOLEAN
          /\ enabled = IF handler = "on_bundle_paths_fetched"
                       THEN [AllDisabled EXCEPT !.disconnect_btn = TRUE]
                       ELSE AllDisabled

FailureNext ==
    \/ on_transfer_finished_and_then_run
    \/ on_execute_finished
    \/ on_bundle_paths_fetched
    \/ on_ipa_download_finished

FailureSpec == FailureInit /\ [][FailureNext]_vars

\* C28: when a finished transfer, execution, bundle listing or download
\* with a nonzero exit status is handled, ssh_connected is left as it is,
\* whichever advice the failure branch gives.
C28_FailureKeepsConnection ==
    [][ \A handler \in ResultHandlers, kind \in AdviceKinds :
          (/\ Handles(handler)
           /\ Head(events).returncode # 0
           /\ failure_advice(handler, Head(events).stdout, Head(events).stderr,
                             sshpass_available, password_input) = kind)
            => ssh_connected' = ssh_connected ]_vars

\* A failed download has been handled in a session that is still connected:
\* the archive is still available and the buttons are restored.
C28_Witness ==
    /\ events = <<>>
    /\ ssh_connected
    /\ ipa_available
    /\ enabled.disconnect_btn
    /\ enabled.download_ipa_btn

\* ------------------------------------------------------------------------
\* Who writes the session
\* ------------------------------------------------------------------------
\* This step is taken by a worker thread: it ends and its terminal signal
\* is queued.
WorkerStep ==
    /\ BagCardinality(workers') = BagCardinality(workers) - 1
    /\ Len(events') = Len(events) + 1

\* This step is taken by the GUI thread: a slot handles a queued signal, a
\* dialog of a slot or of a request is closed, or a request of the user is
\* dispatched.
GuiStep ==
    \/ events # <<>> /\ events' = Tail(events)
    \/ events' = events /\ BagCardinality(workers') >= BagCardinality(workers)

SessionAndCatalogKept ==
    /\ SessionKept
    /\ all_bundle_paths' = all_bundle_paths
    /\ bundle_path_combo' = bundle_path_combo

\* C29: a step of a worker thread leaves ssh_connected, ipa_available, the
\* name and the bundle catalog as they are; they change only in steps of the
\* GUI thread.
C29_OnlyGuiThreadWritesSession ==
    [][ /\ WorkerStep => SessionAndCatalogKept
        /\ ~SessionAndCatalogKept => GuiStep ]_vars

\* A download worker has ended and queued its signal in a session that is
\* connected, has its catalog and still has its archive.
C29_Witness ==
    /\ events # <<>>
    /\ events[Len(events)].attr = "download_worker"
    /\ ssh_connected
    /\ ipa_available
    /\ last_generated_ipa_filename = Some(MyAppIpa)
    /\ all_bundle_paths # <<>>

\* ------------------------------------------------------------------------
\* Order of the signals of one execution
\* ------------------------------------------------------------------------
\* C30: in the sequence of signals one execution of run() has emitted, a
\* finished or error signal is the last one, and run() has ended when it is
\* there: every log_message and progress_update comes before it and nothing
\* comes after it.
C30_TerminalSignalIsLast ==
    \A i \in 1..Len(signals) :
        signals[i].name \in {"finished", "error"}
            => /\ i = Len(signals)
               /\ pc = "done"
               /\ \A j \in 1..(i - 1) :
                     signals[j].name \in {"log_message", "progress_update"}

\* A download has ended: the command was logged, progress was reported
\* twice, and finished came last.
C30_Witness ==
    /\ pc = "done"
    /\ Len(signals) = 4
    /\ signals[1].name = "log_message"
    /\ signals[2].name = "progress_update"
    /\ signals[3].name = "progress_update"
    /\ signals[4].name = "finished"

\* ------------------------------------------------------------------------
\* Retries
\* ------------------------------------------------------------------------
\* A slot handles an outcome that is a failure: a nonzero exit status, a
\* connection test without the token, an execution without the marker, or
\* the error signal of a worker (up to its box and from its box on).
FailedOutcomeHandled ==
    \/ \E h \in ResultHandlers \cup {"on_test_connection_finished"} :
          Handles(h) /\ Head(events).returncode # 0
    \/ /\ Handles("on_test_connection_finished")
       /\ ~TokenPresent(Head(events).stdout)
    \/ /\ Handles("on_execute_finished")
       /\ SearchIpaFilename(Head(events).stdout) = None
    \/ Handles("on_worker_error")
    \/ ErrorHandled(WorkerAttrs)

\* C31: there are no automatic retries.  A step that starts a worker is
\* either a request of the user (no slot runs in it) or the slot of a
\* finished transfer with exit status 0, which starts the execute worker
\* and no other; a slot that handles a failed outcome starts no worker at
\* all.
C31_NoAutomaticRetry ==
    [][ /\ \A attr \in WorkerAttrs :
              Started(attr)
                  => \/ events' = events /\ ~ErrorHandled(WorkerAttrs)
                     \/ /\ attr = "execute_worker"
                        /\ Handles("on_transfer_finished_and_then_run")
                        /\ Head(events).returncode = 0
        /\ FailedOutcomeHandled
              => BagCardinality(workers') <= BagCardinality(workers) ]_vars

\* The error signal of a list worker has been taken from the queue and its
\* box is open: the session is still connected and nothing is outstanding.
C31_Witness ==
    /\ modal # <<>>
    /\ modal[Len(modal)].kind = "error_box"
    /\ modal[Len(modal)].args.attr = "bundle_list_worker"
    /\ ssh_connected
    /\ workers = EmptyBag
    /\ events = <<>>

\* ------------------------------------------------------------------------
\* Permitted operations
\* ------------------------------------------------------------------------
\* The button that starts an execution under the selected mechanism.
StartButton ==
    IF script_mechanism = 0 THEN enabled.transfer_script_btn ELSE enabled.run_script_btn

\* C32: whenever no operation is outstanding, the buttons are the function
\* of the session state: Connect is offered exactly when the session is not
\* connected, Disconnect, List and the Start of the selected mechanism
\* exactly when it is connected, and Download exactly when the session is
\* connected with an archive whose name is known; also after an error
\* signal has been handled.
C32_ButtonsFollowSession ==
    Idle => /\ enabled.connect_btn <=> ~ssh_connected
            /\ enabled.disconnect_btn <=> ssh_connected
            /\ enabled.refresh_bundle_btn <=> ssh_connected
            /\ StartButton <=> ssh_connected
            /\ enabled.download_ipa_btn <=> DownloadLegal

\* ------------------------------------------------------------------------
\* A session in which the user also retypes the address and the user name
\* ------------------------------------------------------------------------
\* The application after construction on a machine that has rsync and no
\* sshpass.
EditInit ==
    /\ Init
    /\ rsync_available
    /\ ~sshpass_available

EditNext ==
    \/ Next
    \/ edit_ip_input
    \/ edit_username_input

EditSpec == EditInit /\ [][EditNext]_vars

\* C33: no command is launched with an empty host address or an empty user
\* name: every worker that is started was built for an address and a user
\* name that are not empty, and a download request made while one of the
\* two fields is empty is rejected before its save dialog opens.
C33_NoLaunchWithoutTarget ==
    [][ /\ \A attr \in WorkerAttrs :
              Started(attr) => /\ StartedWorker(attr).request.ip # <<>>
                               /\ StartedWorker(attr).request.username # <<>>
        /\ SaveDialogOpens => /\ Strip(ip_input) # <<>>
                              /\ Strip(username_input) # <<>> ]_vars

\* ------------------------------------------------------------------------
\* The filtered view
\* ------------------------------------------------------------------------
\* The catalog entries in which the filter text occurs when case is ignored,
\* in catalog order (every entry when the text is empty).
FilteredView ==
    SelectSeq(all_bundle_paths,
              LAMBDA path : OccursIgnoringCase(bundle_filter_input, path))

\* C34: in every reachable state the items offered for selection are the
\* filter applied to the current catalog with the current filter text, also
\* right after a listing that succeeded while a filter text was typed.
C34_ViewIsFilteredCatalog ==
    bundle_path_combo.items = FilteredView

\* ------------------------------------------------------------------------
\* Listing again
\* ------------------------------------------------------------------------
\* A connected session that holds the catalog of an earlier listing
\* (com.foo.App and com.bar.App2) and whose next bundle list worker has just
\* reported, with the finished signal or with the error signal.
RelistInit ==
    /\ alive = TRUE
    /\ ssh_connected = TRUE
    /\ ipa_available = FALSE
    /\ last_generated_ipa_filename = None
    /\ ipa_script_path = None
    /\ all_bundle_paths = ParseBundlePaths(OutBundles)
    /\ bundle_path_combo = [items |-> ParseBundlePaths(OutBundles), index |-> 0]
    /\ rsync_available \in BOOLEAN
    /\ sshpass_available = FALSE
    /\ enabled = [AllDisabled EXCEPT !.disconnect_btn = TRUE]
    /\ read_only = TRUE
    /\ script_mechanism = 1
    /\ ip_input = InitialIp
    /\ username_input = RootUser
    /\ password_input = <<>>
    /\ remote_script_path_input = DefaultRemoteScript
    /\ local_script_path_input = <<>>
    /\ bundle_filter_input = <<>>
    /\ workers = EmptyBag
    /\ \/ \E stdout \in CatalogOutputs, returncode \in ReturnCodes :
             events = <<[signal |-> "finished", handler |-> "on_bundle_paths_fetched",
                         attr |-> "bundle_list_worker", args |-> <<>>,
                         remote_path |-> <<>>,
                         stdout |-> stdout, returncode |-> returncode]>>
       \/ events = <<[signal |-> "error", handler |-> "on_worker_error",
                      attr |-> "bundle_list_worker", args |-> <<>>,
                      remote_path |-> <<>>,
                      stdout |-> <<>>, returncode |-> 0]>>
    /\ modal = <<>>
    /\ RunnerParked

RelistNext ==
    \/ on_bundle_paths_fetched
    \/ on_worker_error
    \/ on_worker_error_box_closed
    \/ fetch_bundle_paths
    \/ \E w \in BagToSet(workers) : WorkerFinished(w)
    \/ \E w \in BagToSet(workers) : WorkerError(w)

RelistSpec == RelistInit /\ [][RelistNext]_vars

EntrySet(entries) == {entries[i] : i \in 1..Len(entries)}

CatalogKept ==
    /\ all_bundle_paths' = all_bundle_paths
    /\ bundle_path_combo' = bundle_path_combo

\* C35: a listing that ends with a nonzero exit status or with the error
\* signal leaves the catalog as it was before the request (neither the
\* request, nor the slot of the failure, nor the closing of the error box
\* changes it); a listing that ends with exit status 0 replaces it: the
\* catalog is then as long as the list of entries of the new output and
\* holds those entries and no other, so that an entry of the previous
\* catalog is in it only if the output lists it again.
C35_FailedListingKeepsCatalog ==
    [][ /\ Accepted("bundle_list_worker") => CatalogKept
        /\ (Handles("on_bundle_paths_fetched") /\ Head(events).returncode # 0)
              => CatalogKept
        /\ (Handles("on_worker_error") /\ Head(events).attr = "bundle_list_worker")
              => CatalogKept
        /\ ErrorHandled({"bundle_list_worker"}) => CatalogKept
        /\ (Handles("on_bundle_paths_fetched") /\ Head(events).returncode = 0)
              => /\ Len(all_bundle_paths') = Len(EntriesOfOutput(Head(events).stdout))
                 /\ EntrySet(all_bundle_paths')
                       = EntrySet(EntriesOfOutput(Head(events).stdout))
                 /\ \A old \in EntrySet(all_bundle_paths) :
                       old \in EntrySet(all_bundle_paths')
                          => old \in EntrySet(EntriesOfOutput(Head(events).stdout)) ]_vars

\* The second listing printed "bar" alone: the catalog holds the entry of bar
\* and neither of the two entries it held before.
C35_Witness ==
    /\ events = <<>>
    /\ workers = EmptyBag
    /\ all_bundle_paths = <<BarEntry>>
    /\ ComFooEntry \notin EntrySet(all_bundle_paths)

\* ------------------------------------------------------------------------
\* The target of a session
\* ------------------------------------------------------------------------
\* A connection test has been requested and its result is not yet handled.
TestOutstanding ==
    \/ CountOf(workers, "test_worker") > 0
    \/ \E i \in 1..Len(events) : events[i].attr = "test_worker"

\* C36: from the request of a connection test to the end of the session it
\* establishes, the test being outstanding included, the host address and
\* the user name do not change, and every transfer, execute, list and
\* download command that is launched while connected targets them.
C36_SessionTargetIsFixed ==
    [][ /\ (TestOutstanding \/ ssh_connected)
              => /\ ip_input' = ip_input
                 /\ username_input' = username_input
        /\ \A attr \in OperationAttrs :
              (Started(attr) /\ ssh_connected)
                 => /\ StartedWorker(attr).request.ip = Strip(ip_input)
                    /\ StartedWorker(attr).request.username = Strip(username_input) ]_vars

====
